---- MODULE Spec2Model ----
(***************************************************************************)
(* Batch construction and loss computation of the training jobs in         *)
(* kge/job/train.py:                                                       *)
(*   - TrainingJobNegativeSampling: __init__, collate and _process_batch   *)
(*     (chunk loop, the three scoring implementations, loss and backward); *)
(*   - TrainingJobKvsAll: __init__, _prepare, the collate function and the *)
(*     whole of _process_batch (labels, smoothing, forward/backward        *)
(*     loop);                                                              *)
(*   - TrainingJob.run_epoch: the evokg loop, the loop over the batches of *)
(*     an epoch, its sums and the epoch trace entry (loaders as built by   *)
(*     TrainingJob1vsAll._prepare);                                        *)
(*   - TrainingJob.run: early stopping, validation, checkpoints, the end   *)
(*     of training and a resume.                                           *)
(* Tensors are sequences (1-based); entity, relation and example ids are   *)
(* 0-based as in the code, so id x is found at position x + 1.             *)
(***************************************************************************)
EXTENDS Integers, Sequences, FiniteSets, TLC

\* ------------------------------------------------------------------ bounds

\* largest batch handed to TrainingJobNegativeSampling._process_batch
MaxBatch == 3
\* largest number of negatives per slot
MaxNeg == 2
\* largest configured negative_sampling.chunk_size
MaxChunkCfg == 3
\* the sampler collaborator is a deterministic function of a seed in 0..MaxSeed
MaxSeed == 1
\* most negatives of one chunk and slot (rows x k) of the scoring-strategy check
MaxScoreCells == 5
\* largest batch handed to the collate function of TrainingJobKvsAll
MaxKvBatch == 2
\* largest number of negatives per slot a sampler is constructed with
MaxSamplesCfg == 32
\* largest configured train.update_freq
MaxUpdateFreq == 3
\* most batches of one epoch
MaxEpochBatches == 3

\* --------------------------------------------------------------- constants

S == 0
P == 1
O == 2
SLOTS == <<S, P, O>>

\* "auto": most negatives per slot scored with implementation "triple"
AutoTripleMax == 30

\* the training split: a fixed dataset of (S,P,O) facts
TrainSplit == << <<0, 0, 1>>, <<0, 0, 2>>, <<1, 0, 2>>, <<2, 1, 0>> >>

Max2(a, b) == IF a >= b THEN a ELSE b
Min2(a, b) == IF a <= b THEN a ELSE b

RECURSIVE MaxOfSet(_)
MaxOfSet(xs) ==
  IF xs = {} THEN 0
  ELSE LET x == CHOOSE y \in xs : TRUE IN Max2(x, MaxOfSet(xs \ {x}))

\* dataset.num_entities(), dataset.num_relations()
num_entities ==
  1 + MaxOfSet({TrainSplit[i][S + 1] : i \in 1..Len(TrainSplit)}
               \cup {TrainSplit[i][O + 1] : i \in 1..Len(TrainSplit)})
num_relations == 1 + MaxOfSet({TrainSplit[i][P + 1] : i \in 1..Len(TrainSplit)})

\* number of targets of a slot: entities for S and O, relations for P
NumTargets(slot) == IF slot = P THEN num_relations ELSE num_entities

\* ------------------------------------------------------- tensor operations

\* m[:, c] of a matrix
Col(m, c) == [x \in 1..Len(m) |-> m[x][c + 1]]

\* the first b - a rows whatever a is
RowsFromTop(m, a, b) == [x \in 1..(Min2(b, Len(m)) - a) |-> m[x]]

\* m[a:b, :] (Python slice, 0-based, b exclusive, clamped to the rows of m)
Rows(m, a, b) == [x \in 1..(Min2(b, Len(m)) - a) |-> m[a + x]]

\* number of columns of a matrix with at least one row
NumCols(m) == IF Len(m) = 0 THEN 0 ELSE Len(m[1])

\* shape of a matrix
Shape(m) == <<Len(m), NumCols(m)>>

\* m.view(-1): the rows of m one after the other
ViewFlat(m) ==
  LET c == NumCols(m)
  IN  [x \in 1..(Len(m) * c) |-> m[((x - 1) \div c) + 1][((x - 1) % c) + 1]]

\* flat.view(-1, cols)
ViewCols(flat, cols) ==
  [x \in 1..(Len(flat) \div cols) |-> [j \in 1..cols |-> flat[(x - 1) * cols + j]]]

\* flat.view(rows, -1)
ViewRows(flat, rows) == ViewCols(flat, Len(flat) \div rows)

RECURSIVE Copies(_, _)
Copies(row, r) == IF r = 0 THEN <<>> ELSE row \o Copies(row, r - 1)

\* m.repeat(1, r): every row r times side by side
Repeat(m, r) == [x \in 1..Len(m) |-> Copies(m[x], r)]

\* torch.cat((a, b), 1)
Cat1(a, b) == [x \in 1..Len(a) |-> a[x] \o b[x]]

\* m[:, [c]]: column c as a matrix of one column
ColMatrix(m, c) == [x \in 1..Len(m) |-> <<m[x][c + 1]>>]

\* m[:, c] = vals
SetCol(m, c, vals) == [x \in 1..Len(m) |-> [m[x] EXCEPT ![c + 1] = vals[x]]]

\* torch.arange(n).unsqueeze(1).repeat(1, r).view(-1): 000 111 222
RowIndexes(n, r) == ViewFlat(Repeat([x \in 1..n |-> <<x - 1>>], r))

\* all_scores[row_indexes, column_indexes]
Gather(all_scores, row_indexes, column_indexes) ==
  [x \in 1..Len(row_indexes) |-> all_scores[row_indexes[x] + 1][column_indexes[x] + 1]]

RECURSIVE SortedSeq(_)
SortedSeq(xs) ==
  IF xs = {} THEN <<>>
  ELSE LET m == CHOOSE y \in xs : \A z \in xs : y <= z
       IN  <<m>> \o SortedSeq(xs \ {m})

\* torch.unique(flat, return_inverse=True)[0]: the sorted distinct values
Unique(flat) == SortedSeq({flat[x] : x \in 1..Len(flat)})

\* the inverse index pointing at the first occurrence in flat
UniqueInverseIntoFlat(flat) ==
  [x \in 1..Len(flat) |-> (CHOOSE y \in 1..Len(flat) :
                             flat[y] = flat[x] /\ \A z \in 1..(y - 1) : flat[z] # flat[x]) - 1]

\* torch.unique(flat, return_inverse=True)[1]: position of every value in Unique
UniqueInverse(flat) ==
  LET u == Unique(flat)
  IN  [x \in 1..Len(flat) |-> (CHOOSE y \in 1..Len(u) : u[y] = flat[x]) - 1]

\* torch.zeros((rows, cols)); labels[:, 0] = 1
ZerosFirstOne(rows, cols) ==
  [i \in 1..rows |-> [j \in 1..cols |-> IF j = 1 THEN 1 ELSE 0]]

\* ------------------------------------------------------ scoring collaborator

\* the model's score of one triple: a fixed deterministic function, injective
\* on the ids of the dataset so that every wrongly picked entry shows
ScoreFn(s, p, o) == (s * num_relations + p) * num_entities + o

\* model.score_spo(s, p, o, direction): one score per triple
score_spo(s, p, o, direction) == [x \in 1..Len(s) |-> ScoreFn(s[x], p[x], o[x])]

\* model.score_sp(s, p): scores of (s, p, ?) against every entity
score_sp(s, p) ==
  [x \in 1..Len(s) |-> [t \in 1..num_entities |-> ScoreFn(s[x], p[x], t - 1)]]

\* model.score_po(p, o): scores of (?, p, o) against every entity
score_po(p, o) ==
  [x \in 1..Len(p) |-> [t \in 1..num_entities |-> ScoreFn(t - 1, p[x], o[x])]]

\* model.score_so(s, o): scores of (s, ?, o) against every relation
score_so(s, o) ==
  [x \in 1..Len(s) |-> [t \in 1..num_relations |-> ScoreFn(s[x], t - 1, o[x])]]

\* model.score_sp(s, p, subset), score_po(p, o, subset), score_so(s, o, subset)
score_sp_subset(s, p, subset) ==
  [x \in 1..Len(s) |-> [t \in 1..Len(subset) |-> ScoreFn(s[x], p[x], subset[t])]]
score_po_subset(p, o, subset) ==
  [x \in 1..Len(p) |-> [t \in 1..Len(subset) |-> ScoreFn(subset[t], p[x], o[x])]]
score_so_subset(s, o, subset) ==
  [x \in 1..Len(s) |-> [t \in 1..Len(subset) |-> ScoreFn(s[x], subset[t], o[x])]]

RECURSIVE SumSeq(_)
SumSeq(xs) == IF xs = <<>> THEN 0 ELSE Head(xs) + SumSeq(Tail(xs))

\* self.loss(scores, labels, num_negatives): a sum of per-entry terms that reads
\* both the scores and the labels
Loss(scores_, labels_, num_negatives) ==
  SumSeq([i \in 1..Len(scores_) |->
            SumSeq([j \in 1..Len(scores_[i]) |->
                      IF labels_[i][j] = 1 THEN 0 - scores_[i][j] ELSE scores_[i][j]])])

\* the sampler collaborator: sample(triples, slot) -> candidates[batch, k]
Sample(seed_, triples_, slot_, k) ==
  [i \in 1..Len(triples_) |->
     [j \in 1..k |-> (triples_[i][slot_ + 1] + seed_ + i * j) % NumTargets(slot_)]]

\* ------------------------------------------- the three scoring implementations

Direction(slot_) == IF slot_ = S THEN "s" ELSE IF slot_ = O THEN "o" ELSE "p"

\* m.repeat(r, 1): the whole matrix r times one below the other
RepeatRows(m, r) == [x \in 1..(Len(m) * r) |-> m[((x - 1) % Len(m)) + 1]]

\* the triples to score with the chunk repeated as a whole, not row by row
TriplesToScoreChunkwise(triples_, negs, slot_, num_samples_) ==
  SetCol(RepeatRows(triples_, 1 + num_samples_), slot_,
         ViewFlat(Cat1(ColMatrix(triples_, slot_), negs)))

\* triples_to_score of implementation "triple": every row 1 + k times (a new
\* tensor, repeat copies), then the slot column overwritten by the positive
\* and the negatives of the row
TriplesToScore(triples_, negs, slot_, num_samples_) ==
  SetCol(ViewCols(ViewFlat(Repeat(triples_, 1 + num_samples_)), 3), slot_,
         ViewFlat(Cat1(ColMatrix(triples_, slot_), negs)))

\* implementation "triple": expand every row into 1 + k triples and score each
ScoresTriple(triples_, negs, slot_, num_samples_, chunk_size_) ==
  LET to_score == TriplesToScore(triples_, negs, slot_, num_samples_)
  IN  ViewRows(score_spo(Col(to_score, 0), Col(to_score, 1),
                         Col(to_score, 2), Direction(slot_)),
               chunk_size_)

\* implementation "all" with the negatives put before the positive
ScoresAllNegativesFirst(triples_, negs, slot_, num_samples_, chunk_size_) ==
  LET all_scores ==
        IF slot_ = S THEN score_po(Col(triples_, P), Col(triples_, O))
        ELSE IF slot_ = P THEN score_so(Col(triples_, S), Col(triples_, O))
        ELSE score_sp(Col(triples_, S), Col(triples_, P))
      row_indexes == RowIndexes(chunk_size_, 1 + num_samples_)
      column_indexes == ViewFlat(Cat1(negs, ColMatrix(triples_, slot_)))
  IN  ViewRows(Gather(all_scores, row_indexes, column_indexes), chunk_size_)

\* implementation "all": score against every target, then pick the columns
ScoresAll(triples_, negs, slot_, num_samples_, chunk_size_) ==
  LET all_scores ==
        IF slot_ = S THEN score_po(Col(triples_, P), Col(triples_, O))
        ELSE IF slot_ = P THEN score_so(Col(triples_, S), Col(triples_, O))
        ELSE score_sp(Col(triples_, S), Col(triples_, P))
      row_indexes == RowIndexes(chunk_size_, 1 + num_samples_)
      column_indexes == ViewFlat(Cat1(ColMatrix(triples_, slot_), negs))
  IN  ViewRows(Gather(all_scores, row_indexes, column_indexes), chunk_size_)

\* implementation "batch": score against the targets of the chunk, then pick
\* the columns through the inverse index
ScoresBatch(triples_, negs, slot_, num_samples_, chunk_size_) ==
  LET flat == ViewFlat(Cat1(ColMatrix(triples_, slot_), negs))
      unique_targets == Unique(flat)
      column_indexes == UniqueInverse(flat)
      all_scores ==
        IF slot_ = S
        THEN score_po_subset(Col(triples_, P), Col(triples_, O), unique_targets)
        ELSE IF slot_ = P
        THEN score_so_subset(Col(triples_, S), Col(triples_, O), unique_targets)
        ELSE score_sp_subset(Col(triples_, S), Col(triples_, P), unique_targets)
      row_indexes == RowIndexes(chunk_size_, 1 + num_samples_)
  IN  ViewRows(Gather(all_scores, row_indexes, column_indexes), chunk_size_)

ComputeScores(impl, triples_, negs, slot_, num_samples_, chunk_size_) ==
  IF impl = "triple" THEN ScoresTriple(triples_, negs, slot_, num_samples_, chunk_size_)
  ELSE IF impl = "all" THEN ScoresAll(triples_, negs, slot_, num_samples_, chunk_size_)
  ELSE ScoresBatch(triples_, negs, slot_, num_samples_, chunk_size_)

\* --------------------------------- TrainingJobNegativeSampling: one batch

VARIABLES
  pc,                      \* position in collate / _process_batch
  implementation,          \* self._implementation (resolved)
  num_samples,             \* self._sampler.num_samples, one k per slot
  self_max_chunk_size,     \* self._max_chunk_size
  seed,                    \* state of the sampler collaborator
  batch,                   \* example indexes handed to collate
  batch_triples,           \* batch["triples"]
  batch_negative_samples,  \* batch["negative_samples"], in order S, P, O
  batch_size,
  max_chunk_size,
  num_chunks,              \* the range of the chunk loop
  chunk_number,
  chunk_start,
  chunk_end,
  chunk_size,
  triples,                 \* rows of the current chunk
  negative_samples,        \* negatives of the current chunk, per slot
  slot,                    \* current slot of the loop over [S, P, O]; 3 = exhausted
  labels,                  \* cached gold labels, None at the start
  scores,
  triples_to_score,        \* implementation "triple": the expanded triples
  loss_value_torch,        \* loss of the current chunk and slot, num / den
  loss_value,              \* sum of the chunk losses, num / den
  sample_calls,            \* slots the sampler was called for, in call order
  chunks,                  \* the [chunk_start, chunk_end) ranges, in loop order
  calls,                   \* score, loss and backward calls, in call order
  \* TrainingJobKvsAll
  query_types,             \* self.query_types: the enabled query types, in order
  index,                   \* dataset.index(...) of every enabled query type
  queries,                 \* self.queries
  self_labels,             \* self.labels
  label_offsets,           \* self.label_offsets
  query_end_index,         \* self.query_end_index
  num_examples,            \* self.num_examples
  num_ones,                \* collate: number of labels across the batch
  batch_index,             \* collate: position of the running loop in the batch
  queries_batch,
  query_type_indexes_batch,
  label_coords_batch,
  triples_batch,
  current_index,           \* collate: write cursor into label_coords_batch
  written,                 \* how often each row of label_coords_batch was written
  \* TrainingJobNegativeSampling.__init__
  cfg_implementation,      \* configuration key negative_sampling.implementation
  sampler_shared,          \* self._sampler.shared
  \* TrainingJob.run_epoch
  update_freq,             \* configuration key train.update_freq
  abort_on_nan,            \* self.abort_on_nan
  num_batches,             \* number of batches self.last_t_loader yields
  epoch_batch_index,       \* batch_index of the loop over self.last_t_loader
  avg_loss,                \* batch_result.avg_loss
  penalties_torch,         \* the penalty terms returned by self.model.penalty
  penalty_index,           \* position of the loop over penalties_torch
  penalty,
  cost_value,
  epoch_calls,             \* optimizer, _process_batch, penalty and backward calls
  \* TrainingJobKvsAll.__init__ and _process_batch
  cfg_label_smoothing,     \* configuration key KvsAll.label_smoothing, num / den
  auto_correct,            \* configuration key train.auto_correct
  label_smoothing,         \* self.label_smoothing, num / den
  config_log,              \* what config.log was called with, in call order
  examples_for_query_type, \* per enabled query type: its positions in the batch
  labels_batch,            \* the dense label matrix of the batch
  labels_for_query_type,   \* per enabled query type: its label matrix, num / den
  forward_index,           \* position of the loop over examples_for_query_type
  loss_value_total,        \* loss_value_total of KvsAll._process_batch, num / den
  backward_calls,          \* the loss values backward() was called on, in order
  \* TrainingJob.run and the sums and trace entry of run_epoch
  epoch,                   \* self.epoch
  unapplied,               \* <<epoch, batch>> of the gradients accumulated since
                           \* the last optimizer.step() or zero_grad()
  discarded,               \* <<epoch, batch>> of the gradients zeroed without a step
  self_num_examples,       \* self.num_examples
  last_t_num_examples,     \* self.last_t_num_examples
  self_batch_size,         \* self.batch_size
  result_size,             \* batch_result.size
  sum_loss,
  sum_penalty,
  trace_entry,             \* the epoch trace entry, None while the epoch runs
  max_epochs,              \* configuration key train.max_epochs
  valid_every,             \* configuration key valid.every
  patience,                \* configuration key valid.early_stopping.patience
  min_threshold,           \* valid.early_stopping.min_threshold: epochs, metric_value
  checkpoint_every,        \* configuration key train.checkpoint.every
  checkpoint_keep,         \* configuration key train.checkpoint.keep
  post_train_hooks,        \* len(self.post_train_hooks)
  valid_trace,             \* self.valid_trace: epoch and metric of every validation
  checkpoints,             \* the epochs whose numbered checkpoint file exists
  best_checkpoint,         \* the epoch saved in the checkpoint "best", 0 if none
  run_log,                 \* run_epoch calls, stops and train_completed, in order
  start_epoch,             \* self.epoch when run was called
  resumed,                 \* the job was resumed from its last checkpoint
  \* the evokg loop of run_epoch
  num_train_batches,       \* len(self.evokg_train_data_loader)
  rnn_truncate_every,      \* configuration key evokg.rnn_truncate_every
  evokg_optimize,          \* configuration key evokg.optimize
  batch_i,
  batch_train_loss,        \* the batches whose loss batch_train_loss holds
  evokg_calls              \* loss, backward and optimizer calls, in order

nsVars ==
  <<pc, implementation, num_samples, self_max_chunk_size, seed, batch,
    batch_triples, batch_negative_samples, batch_size, max_chunk_size,
    num_chunks, chunk_number, chunk_start, chunk_end, chunk_size, triples,
    negative_samples, slot, labels, scores, triples_to_score, loss_value_torch,
    loss_value, sample_calls, chunks, calls>>

kvsVars ==
  <<query_types, index, queries, self_labels, label_offsets, query_end_index,
    num_examples, num_ones, batch_index, queries_batch, query_type_indexes_batch,
    label_coords_batch, triples_batch, current_index, written>>

ctorVars == <<cfg_implementation, sampler_shared>>

epochVars ==
  <<update_freq, abort_on_nan, num_batches, epoch_batch_index, avg_loss,
    penalties_torch, penalty_index, penalty, cost_value, epoch_calls>>

kvsJobVars ==
  <<cfg_label_smoothing, auto_correct, label_smoothing, config_log,
    examples_for_query_type, labels_batch, labels_for_query_type>>

kvsLossVars == <<forward_index, loss_value_total, backward_calls>>

epochSumVars ==
  <<epoch, unapplied, discarded, self_num_examples, last_t_num_examples,
    self_batch_size, result_size, sum_loss, sum_penalty, trace_entry>>

runVars ==
  <<max_epochs, valid_every, patience, min_threshold, checkpoint_every,
    checkpoint_keep, post_train_hooks, valid_trace, checkpoints, best_checkpoint,
    run_log, start_epoch, resumed>>

evokgVars ==
  <<num_train_batches, rnn_truncate_every, evokg_optimize, batch_i,
    batch_train_loss, evokg_calls>>

trainVars == <<kvsLossVars, epochSumVars, runVars, evokgVars>>

\* floats: a finite value, nan, inf or -inf
Fin(n) == [kind |-> "fin", val |-> n]
NaN == [kind |-> "nan", val |-> 0]
PosInf == [kind |-> "inf", val |-> 1]
NegInf == [kind |-> "inf", val |-> 0 - 1]

\* math.isnan(x)
IsNan(x) == x.kind = "nan"

\* a + b of floats: nan is absorbing, inf + -inf is nan
FAdd(a, b) ==
  IF a.kind = "nan" \/ b.kind = "nan" THEN NaN
  ELSE IF a.kind = "inf" /\ b.kind = "inf"
       THEN (IF a.val = b.val THEN a ELSE NaN)
  ELSE IF a.kind = "inf" THEN a
  ELSE IF b.kind = "inf" THEN b
  ELSE Fin(a.val + b.val)

\* no epoch is running
EpochIdle ==
  /\ update_freq = 1
  /\ abort_on_nan = FALSE
  /\ num_batches = 0
  /\ epoch_batch_index = 0
  /\ avg_loss = Fin(0)
  /\ penalties_torch = <<>>
  /\ penalty_index = 0
  /\ penalty = Fin(0)
  /\ cost_value = Fin(0)
  /\ epoch_calls = <<>>

None == <<>>

\* rationals as num / den, den > 0
Rat(n, d) == [num |-> n, den |-> d]
RatAdd(a, b) ==
  IF a.den = b.den THEN Rat(a.num + b.num, a.den)
  ELSE Rat(a.num * b.den + b.num * a.den, a.den * b.den)
RatSub(a, b) == Rat(a.num * b.den - b.num * a.den, a.den * b.den)
RatMul(a, b) == Rat(a.num * b.num, a.den * b.den)
RatEq(a, b) == a.num * b.den = b.num * a.den
RatLess(a, b) == a.num * b.den < b.num * a.den
RatLeq(a, b) == a.num * b.den <= b.num * a.den

\* the KvsAll job is not running
KvsIdle ==
  /\ query_types = <<>>
  /\ index = <<>>
  /\ queries = <<>>
  /\ self_labels = <<>>
  /\ label_offsets = <<>>
  /\ query_end_index = <<>>
  /\ num_examples = 0
  /\ num_ones = 0
  /\ batch_index = 0
  /\ queries_batch = <<>>
  /\ query_type_indexes_batch = <<>>
  /\ label_coords_batch = <<>>
  /\ triples_batch = <<>>
  /\ current_index = 0
  /\ written = <<>>
  /\ cfg_label_smoothing = Rat(0, 1)
  /\ auto_correct = FALSE
  /\ label_smoothing = Rat(0, 1)
  /\ config_log = <<>>
  /\ examples_for_query_type = <<>>
  /\ labels_batch = <<>>
  /\ labels_for_query_type = <<>>

\* the forward/backward loop of the KvsAll job is not running
KvsLossIdle ==
  /\ forward_index = 0
  /\ loss_value_total = Rat(0, 1)
  /\ backward_calls = <<>>

\* no epoch has been run
EpochSumIdle ==
  /\ epoch = 0
  /\ unapplied = <<>>
  /\ discarded = <<>>
  /\ self_num_examples = 0
  /\ last_t_num_examples = 0
  /\ self_batch_size = 1
  /\ result_size = 0
  /\ sum_loss = Fin(0)
  /\ sum_penalty = Fin(0)
  /\ trace_entry = None

\* TrainingJob.run is not running
RunIdle ==
  /\ max_epochs = 0
  /\ valid_every = 0
  /\ patience = 0
  /\ min_threshold = [epochs |-> 0, metric_value |-> 0]
  /\ checkpoint_every = 0
  /\ checkpoint_keep = 0
  /\ post_train_hooks = 0
  /\ valid_trace = <<>>
  /\ checkpoints = {}
  /\ best_checkpoint = 0
  /\ run_log = <<>>
  /\ start_epoch = 0
  /\ resumed = FALSE

\* the evokg loop is not running
EvokgIdle ==
  /\ num_train_batches = 0
  /\ rnn_truncate_every = 1
  /\ evokg_optimize = "both"
  /\ batch_i = 0
  /\ batch_train_loss = <<>>
  /\ evokg_calls = <<>>

TrainIdle == KvsLossIdle /\ EpochSumIdle /\ RunIdle /\ EvokgIdle

\* what the negative-sampling job leaves alone
NSFrame == UNCHANGED <<kvsVars, ctorVars, epochVars, kvsJobVars, trainVars>>

\* a / b rounded down instead of up
CeilFloor(a, b) == a \div b

\* math.ceil(a / b) for a >= 0, b > 0
Ceil(a, b) == (a + b - 1) \div b

\* the batches handed to collate: runs of consecutive examples of the split
\* (wrapping around), and the empty batch
NSBatches ==
  {[i \in 1..n |-> (a + i - 1) % Len(TrainSplit)] :
     a \in 0..(Len(TrainSplit) - 1), n \in 0..Min2(MaxBatch, Len(TrainSplit))}

Implementations == {"triple", "all", "batch"}

NSInit ==
  /\ pc = "collate"
  /\ implementation \in Implementations
  /\ num_samples \in [1..3 -> 0..MaxNeg]
  /\ self_max_chunk_size \in (0 - 1)..MaxChunkCfg
  /\ seed \in 0..MaxSeed
  /\ batch \in NSBatches
  /\ batch_triples = <<>>
  /\ batch_negative_samples = <<>>
  /\ batch_size = 0
  /\ max_chunk_size = 0
  /\ num_chunks = 0
  /\ chunk_number = 0
  /\ chunk_start = 0
  /\ chunk_end = 0
  /\ chunk_size = 0
  /\ triples = <<>>
  /\ negative_samples = <<>>
  /\ slot = S
  /\ labels = None
  /\ scores = None
  /\ triples_to_score = None
  /\ loss_value_torch = Rat(0, 1)
  /\ loss_value = Rat(0, 1)
  /\ sample_calls = <<>>
  /\ chunks = <<>>
  /\ calls = <<>>
  /\ KvsIdle
  /\ cfg_implementation = implementation
  /\ sampler_shared = FALSE
  /\ EpochIdle
  /\ TrainIdle

\* collate: look the triples up and sample negatives for S, P, O
NSCollate ==
  /\ pc = "collate"
  /\ LET trs == [i \in 1..Len(batch) |-> TrainSplit[batch[i] + 1]]
     IN  /\ batch_triples' = trs
         /\ batch_negative_samples' =
              [s \in 1..3 |-> Sample(seed, trs, SLOTS[s], num_samples[s])]
  /\ sample_calls' = SLOTS
  /\ pc' = "process"
  /\ NSFrame
  /\ UNCHANGED triples_to_score
  /\ UNCHANGED <<implementation, num_samples, self_max_chunk_size, seed, batch,
                 batch_size, max_chunk_size, num_chunks, chunk_number, chunk_start,
                 chunk_end, chunk_size, triples, negative_samples, slot, labels,
                 scores, loss_value_torch, loss_value, chunks, calls>>

\* max_chunk_size of _process_batch
MaxChunkSizeOf(cfg, bs) == IF cfg > 0 THEN cfg ELSE bs

\* _process_batch up to the head of the chunk loop; batch_size / max_chunk_size
\* raises ZeroDivisionError when max_chunk_size is 0
NSBegin ==
  /\ pc = "process"
  /\ LET bs == Len(batch_triples)
         mcs == MaxChunkSizeOf(self_max_chunk_size, bs)
     IN  /\ batch_size' = bs
         /\ max_chunk_size' = mcs
         /\ IF mcs = 0
            THEN /\ pc' = "error"
                 /\ num_chunks' = 0
            ELSE /\ num_chunks' = Ceil(bs, mcs)
                 /\ pc' = IF Ceil(bs, mcs) > 0 THEN "chunk" ELSE "done"
  /\ loss_value' = Rat(0, 1)
  /\ labels' = None
  /\ chunk_number' = 0
  /\ NSFrame
  /\ UNCHANGED triples_to_score
  /\ UNCHANGED <<implementation, num_samples, self_max_chunk_size, seed, batch,
                 batch_triples, batch_negative_samples, chunk_start, chunk_end,
                 chunk_size, triples, negative_samples, slot, scores,
                 loss_value_torch, sample_calls, chunks, calls>>

ChunkStartOf(mcs, cn) == mcs * cn
ChunkEndOf(mcs, cn, bs) == Min2(mcs * (cn + 1), bs)

\* head of one chunk iteration: the data used for this chunk
NSChunk ==
  /\ pc = "chunk"
  /\ LET cs == ChunkStartOf(max_chunk_size, chunk_number)
         ce == ChunkEndOf(max_chunk_size, chunk_number, batch_size)
     IN  /\ chunk_start' = cs
         /\ chunk_end' = ce
         /\ negative_samples' = [s \in 1..3 |-> Rows(batch_negative_samples[s], cs, ce)]
         /\ triples' = Rows(batch_triples, cs, ce)
         /\ chunk_size' = ce - cs
         /\ chunks' = Append(chunks, <<cs, ce>>)
  /\ slot' = S
  /\ pc' = "slot"
  /\ NSFrame
  /\ UNCHANGED triples_to_score
  /\ UNCHANGED <<implementation, num_samples, self_max_chunk_size, seed, batch,
                 batch_triples, batch_negative_samples, batch_size, max_chunk_size,
                 num_chunks, chunk_number, labels, scores, loss_value_torch,
                 loss_value, sample_calls, calls>>

\* only a negative number of samples skips the slot
NoNegativesStrict(k) == k < 0

\* num_samples <= 0
NoNegatives(k) == k <= 0

\* a slot without negatives: continue
NSSkipSlot ==
  /\ pc = "slot"
  /\ slot < 3
  /\ NoNegatives(num_samples[slot + 1])
  /\ slot' = slot + 1
  /\ NSFrame
  /\ UNCHANGED triples_to_score
  /\ UNCHANGED <<pc, implementation, num_samples, self_max_chunk_size, seed, batch,
                 batch_triples, batch_negative_samples, batch_size, max_chunk_size,
                 num_chunks, chunk_number, chunk_start, chunk_end, chunk_size,
                 triples, negative_samples, labels, scores, loss_value_torch,
                 loss_value, sample_calls, chunks, calls>>

\* the cached labels reused whenever there are any
LabelsForCachedOnly(cached, rows, cols) ==
  IF cached = None THEN ZerosFirstOne(rows, cols) ELSE cached

\* the gold labels: rebuilt unless the cached matrix has the shape needed
LabelsFor(cached, rows, cols) ==
  IF cached = None \/ Shape(cached) # <<rows, cols>>
  THEN ZerosFirstOne(rows, cols)
  ELSE cached

\* gold labels and scores of the current chunk and slot
NSForward ==
  /\ pc = "slot"
  /\ slot < 3
  /\ ~NoNegatives(num_samples[slot + 1])
  /\ labels' = LabelsFor(labels, chunk_size, 1 + num_samples[slot + 1])
  /\ scores' = ComputeScores(implementation, triples, negative_samples[slot + 1],
                             slot, num_samples[slot + 1], chunk_size)
  /\ triples_to_score' =
       IF implementation = "triple"
       THEN TriplesToScore(triples, negative_samples[slot + 1], slot,
                           num_samples[slot + 1])
       ELSE triples_to_score
  /\ calls' = Append(calls, [op |-> "score", chunk |-> chunk_number, slot |-> slot])
  /\ pc' = "loss"
  /\ NSFrame
  /\ UNCHANGED <<implementation, num_samples, self_max_chunk_size, seed, batch,
                 batch_triples, batch_negative_samples, batch_size, max_chunk_size,
                 num_chunks, chunk_number, chunk_start, chunk_end, chunk_size,
                 triples, negative_samples, slot, loss_value_torch, loss_value,
                 sample_calls, chunks>>

\* the chunk loss divided by the size of the chunk
LossDivisorChunk(bs, cs) == cs

\* the divisor of the chunk loss
LossDivisor(bs, cs) == bs

\* loss_value = loss_value_torch.item(): the sum overwritten by the last term
AccumulateLossOverwrite(total, term) == term

\* loss_value += loss_value_torch.item()
AccumulateLoss(total, term) == RatAdd(total, term)

\* chunk loss; the loss collaborator rejects labels not shaped like the scores
NSLoss ==
  /\ pc = "loss"
  /\ IF Shape(labels) # Shape(scores)
     THEN /\ pc' = "error"
          /\ UNCHANGED <<loss_value_torch, loss_value, calls>>
     ELSE /\ loss_value_torch' =
               Rat(Loss(scores, labels, num_samples[slot + 1]),
                   LossDivisor(batch_size, chunk_size))
          /\ loss_value' = AccumulateLoss(loss_value, loss_value_torch')
          /\ calls' = Append(calls, [op |-> "loss", chunk |-> chunk_number, slot |-> slot])
          /\ pc' = "backward"
  /\ NSFrame
  /\ UNCHANGED triples_to_score
  /\ UNCHANGED <<implementation, num_samples, self_max_chunk_size, seed, batch,
                 batch_triples, batch_negative_samples, batch_size, max_chunk_size,
                 num_chunks, chunk_number, chunk_start, chunk_end, chunk_size,
                 triples, negative_samples, slot, labels, scores, sample_calls,
                 chunks>>

\* backward pass for this chunk and slot, then the next slot
NSBackward ==
  /\ pc = "backward"
  /\ calls' = Append(calls, [op |-> "backward", chunk |-> chunk_number, slot |-> slot])
  /\ slot' = slot + 1
  /\ pc' = "slot"
  /\ NSFrame
  /\ UNCHANGED triples_to_score
  /\ UNCHANGED <<implementation, num_samples, self_max_chunk_size, seed, batch,
                 batch_triples, batch_negative_samples, batch_size, max_chunk_size,
                 num_chunks, chunk_number, chunk_start, chunk_end, chunk_size,
                 triples, negative_samples, labels, scores, loss_value_torch,
                 loss_value, sample_calls, chunks>>

\* the slot loop is exhausted: next chunk, or the result is returned
NSChunkEnd ==
  /\ pc = "slot"
  /\ slot = 3
  /\ chunk_number' = chunk_number + 1
  /\ pc' = IF chunk_number + 1 < num_chunks THEN "chunk" ELSE "done"
  /\ NSFrame
  /\ UNCHANGED triples_to_score
  /\ UNCHANGED <<implementation, num_samples, self_max_chunk_size, seed, batch,
                 batch_triples, batch_negative_samples, batch_size, max_chunk_size,
                 num_chunks, chunk_start, chunk_end, chunk_size, triples,
                 negative_samples, slot, labels, scores, loss_value_torch,
                 loss_value, sample_calls, chunks, calls>>

vars == <<nsVars, kvsVars, ctorVars, epochVars, kvsJobVars, trainVars>>

NSNext ==
  \/ NSCollate
  \/ NSBegin
  \/ NSChunk
  \/ NSSkipSlot
  \/ NSForward
  \/ NSLoss
  \/ NSBackward
  \/ NSChunkEnd

SpecNS == NSInit /\ [][NSNext]_vars

\* ----------------------------- TrainingJobNegativeSampling.__init__

\* max(self._sampler.num_samples)
MaxNrOfNegs(ns) == Max2(ns[1], Max2(ns[2], ns[3]))

\* the resolution of "auto" with 30 negatives already going to "batch"
AutoImplementationExclusive(shared, max_nr_of_negs) ==
  IF shared THEN "batch"
  ELSE IF max_nr_of_negs < AutoTripleMax THEN "triple"
  ELSE "batch"

\* the resolution of "auto"
AutoImplementation(shared, max_nr_of_negs) ==
  IF shared THEN "batch"
  ELSE IF max_nr_of_negs <= AutoTripleMax THEN "triple"
  ELSE IF max_nr_of_negs > AutoTripleMax THEN "batch"
  ELSE "auto"

\* the numbers of negatives a sampler may be configured with: none, and the
\* values around the threshold of the resolution
SamplesCfg == {0} \cup ((AutoTripleMax - 1)..MaxSamplesCfg)

\* the job is about to be constructed from a valid configuration
NSCtorInit ==
  /\ pc = "construct"
  /\ cfg_implementation \in {"triple", "all", "batch", "auto"}
  /\ sampler_shared \in BOOLEAN
  /\ num_samples \in [1..3 -> SamplesCfg]
  /\ implementation = None
  /\ self_max_chunk_size = 0
  /\ seed = 0
  /\ batch = <<>>
  /\ batch_triples = <<>>
  /\ batch_negative_samples = <<>>
  /\ batch_size = 0
  /\ max_chunk_size = 0
  /\ num_chunks = 0
  /\ chunk_number = 0
  /\ chunk_start = 0
  /\ chunk_end = 0
  /\ chunk_size = 0
  /\ triples = <<>>
  /\ negative_samples = <<>>
  /\ slot = S
  /\ labels = None
  /\ scores = None
  /\ triples_to_score = None
  /\ loss_value_torch = Rat(0, 1)
  /\ loss_value = Rat(0, 1)
  /\ sample_calls = <<>>
  /\ chunks = <<>>
  /\ calls = <<>>
  /\ KvsIdle
  /\ EpochIdle
  /\ TrainIdle

\* __init__: the implementation is read and "auto" resolved, the chunk size read
NSConstruct ==
  /\ pc = "construct"
  /\ implementation' =
       IF cfg_implementation = "auto"
       THEN AutoImplementation(sampler_shared, MaxNrOfNegs(num_samples))
       ELSE cfg_implementation
  /\ \E c \in (0 - 1)..MaxChunkCfg : self_max_chunk_size' = c
  /\ pc' = "constructed"
  /\ UNCHANGED <<num_samples, seed, batch, batch_triples, batch_negative_samples,
                 batch_size, max_chunk_size, num_chunks, chunk_number, chunk_start,
                 chunk_end, chunk_size, triples, negative_samples, slot, labels,
                 scores, triples_to_score, loss_value_torch, loss_value,
                 sample_calls, chunks, calls, kvsVars, ctorVars, epochVars,
                 kvsJobVars, trainVars>>

NSCtorNext == NSConstruct

SpecNSInit == NSCtorInit /\ [][NSCtorNext]_vars

\* ------------------------- the scoring implementations on one chunk and slot

\* chunks of consecutive examples of the split (wrapping around)
ScoreChunks ==
  {[i \in 1..n |-> TrainSplit[((a + i - 1) % Len(TrainSplit)) + 1]] :
     a \in 0..(Len(TrainSplit) - 1), n \in 1..MaxScoreCells}

\* any chunk, any slot with k > 0 negatives, any negative candidates
ScoreInit ==
  /\ pc = "slot"
  /\ implementation \in Implementations
  /\ triples \in ScoreChunks
  /\ slot \in {S, P, O}
  /\ \E k \in 1..(MaxScoreCells \div Len(triples)) :
       /\ num_samples = [s \in 1..3 |-> IF s = slot + 1 THEN k ELSE 0]
       /\ \E negs \in [1..Len(triples) -> [1..k -> 0..(NumTargets(slot) - 1)]] :
            negative_samples =
              [s \in 1..3 |-> IF s = slot + 1 THEN negs
                              ELSE [i \in 1..Len(triples) |-> <<>>]]
  /\ chunk_size = Len(triples)
  /\ self_max_chunk_size = 0
  /\ seed = 0
  /\ batch = <<>>
  /\ batch_triples = triples
  /\ batch_negative_samples = negative_samples
  /\ batch_size = chunk_size
  /\ max_chunk_size = chunk_size
  /\ num_chunks = 1
  /\ chunk_number = 0
  /\ chunk_start = 0
  /\ chunk_end = chunk_size
  /\ labels = None
  /\ scores = None
  /\ triples_to_score = None
  /\ loss_value_torch = Rat(0, 1)
  /\ loss_value = Rat(0, 1)
  /\ sample_calls = SLOTS
  /\ chunks = << <<0, chunk_size>> >>
  /\ calls = <<>>
  /\ KvsIdle
  /\ cfg_implementation = implementation
  /\ sampler_shared = FALSE
  /\ EpochIdle
  /\ TrainIdle

ScoreFrame ==
  UNCHANGED <<implementation, num_samples, self_max_chunk_size, seed, batch,
              batch_triples, batch_negative_samples, batch_size, max_chunk_size,
              num_chunks, chunk_number, chunk_start, chunk_end, chunk_size,
              triples, negative_samples, slot, labels, loss_value_torch,
              loss_value, sample_calls, chunks, calls, kvsVars, ctorVars,
              epochVars, kvsJobVars, trainVars>>

\* the branch of _process_batch for implementation "triple"
ScoreWithTriple ==
  /\ pc = "slot"
  /\ implementation = "triple"
  /\ scores' = ScoresTriple(triples, negative_samples[slot + 1], slot,
                            num_samples[slot + 1], chunk_size)
  /\ pc' = "scored"
  /\ triples_to_score' = TriplesToScore(triples, negative_samples[slot + 1], slot,
                                        num_samples[slot + 1])
  /\ ScoreFrame

\* the branch of _process_batch for implementation "all"
ScoreWithAll ==
  /\ pc = "slot"
  /\ implementation = "all"
  /\ scores' = ScoresAll(triples, negative_samples[slot + 1], slot,
                         num_samples[slot + 1], chunk_size)
  /\ pc' = "scored"
  /\ UNCHANGED triples_to_score
  /\ ScoreFrame

\* the branch of _process_batch for implementation "batch"
ScoreWithBatch ==
  /\ pc = "slot"
  /\ implementation = "batch"
  /\ scores' = ScoresBatch(triples, negative_samples[slot + 1], slot,
                           num_samples[slot + 1], chunk_size)
  /\ pc' = "scored"
  /\ UNCHANGED triples_to_score
  /\ ScoreFrame

ScoreNext ==
  \/ ScoreWithTriple
  \/ ScoreWithAll
  \/ ScoreWithBatch

SpecScore == ScoreInit /\ [][ScoreNext]_vars

\* ------------------------------------- TrainingJobKvsAll: _prepare, collate

\* the variables of the negative-sampling job other than pc and batch
nsOnlyVars ==
  <<implementation, num_samples, self_max_chunk_size, seed, batch_triples,
    batch_negative_samples, batch_size, max_chunk_size, num_chunks, chunk_number,
    chunk_start, chunk_end, chunk_size, triples, negative_samples, slot, labels,
    scores, triples_to_score, loss_value_torch, loss_value, sample_calls, chunks,
    calls>>

\* the negative-sampling job is not running
NSIdle ==
  /\ implementation = "triple"
  /\ num_samples = <<0, 0, 0>>
  /\ self_max_chunk_size = 0
  /\ seed = 0
  /\ batch_triples = <<>>
  /\ batch_negative_samples = <<>>
  /\ batch_size = 0
  /\ max_chunk_size = 0
  /\ num_chunks = 0
  /\ chunk_number = 0
  /\ chunk_start = 0
  /\ chunk_end = 0
  /\ chunk_size = 0
  /\ triples = <<>>
  /\ negative_samples = <<>>
  /\ slot = S
  /\ labels = None
  /\ scores = None
  /\ triples_to_score = None
  /\ loss_value_torch = Rat(0, 1)
  /\ loss_value = Rat(0, 1)
  /\ sample_calls = <<>>
  /\ chunks = <<>>
  /\ calls = <<>>
  /\ cfg_implementation = "triple"
  /\ sampler_shared = FALSE

\* what the KvsAll job leaves alone
KvsFrame == UNCHANGED <<nsOnlyVars, ctorVars, epochVars, kvsJobVars, trainVars>>

\* the enabled query types: the non-empty selections of the configuration key
\* KvsAll.query_types, order kept; the keys enabled are read as they are, so a
\* key other than sp_, s_o, _po may be among them
QueryTypeConfigs ==
  {<<"sp_">>, <<"s_o">>, <<"_po">>, <<"sp_", "s_o">>, <<"sp_", "_po">>,
   <<"s_o", "_po">>, <<"sp_", "s_o", "_po">>, <<"_p_">>, <<"sp_", "_p_">>}

\* the index asked of the dataset for a query type
IndexTypeOf(query_type) ==
  IF query_type = "sp_" THEN "sp_to_o"
  ELSE IF query_type = "s_o" THEN "so_to_p"
  ELSE "po_to_s"

\* indexes dataset.index(...) may return: query key -> its labels, in key order
IndexChoices ==
  { <<>>,
    << [key |-> <<0, 1>>, vals |-> <<2>>] >>,
    << [key |-> <<0, 0>>, vals |-> <<1, 2>>], [key |-> <<1, 0>>, vals |-> <<2>>] >> }

\* label offsets without the leading 0
LabelOffsetsOfEndsOnly(idx) ==
  [i \in 1..Len(idx) |->
     SumSeq([x \in 1..i |-> Len(idx[x].vals)])]

\* label_offsets of index_KvsAll_to_torch: N + 1 cumulative counts
LabelOffsetsOf(idx) ==
  [i \in 1..(Len(idx) + 1) |->
     SumSeq([x \in 1..(i - 1) |-> Len(idx[x].vals)])]

RECURSIVE ConcatVals(_)
ConcatVals(idx) ==
  IF idx = <<>> THEN <<>> ELSE Head(idx).vals \o ConcatVals(Tail(idx))

\* index_KvsAll_to_torch(index): queries, labels, label_offsets
index_KvsAll_to_torch(idx) ==
  [queries |-> [i \in 1..Len(idx) |-> idx[i].key],
   labels |-> ConcatVals(idx),
   label_offsets |-> LabelOffsetsOf(idx)]

\* the label smoothing a constructed job holds: none, 1/num_entities after an
\* automatic correction, or a configured value above 1/num_entities
StoredLabelSmoothing == {Rat(0, 1), Rat(1, num_entities), Rat(1, 2)}

KvsInit ==
  /\ pc = "prepare"
  /\ batch = <<>>
  /\ query_types \in QueryTypeConfigs
  /\ index \in [1..Len(query_types) -> IndexChoices]
  /\ queries = <<>>
  /\ self_labels = <<>>
  /\ label_offsets = <<>>
  /\ query_end_index = <<>>
  /\ num_examples = 0
  /\ num_ones = 0
  /\ batch_index = 0
  /\ queries_batch = <<>>
  /\ query_type_indexes_batch = <<>>
  /\ label_coords_batch = <<>>
  /\ triples_batch = <<>>
  /\ current_index = 0
  /\ written = <<>>
  /\ label_smoothing \in StoredLabelSmoothing
  /\ cfg_label_smoothing = label_smoothing
  /\ auto_correct = (label_smoothing = Rat(1, num_entities))
  /\ config_log = IF auto_correct THEN <<"label_smoothing_set", "initializing">>
                                  ELSE <<"initializing">>
  /\ examples_for_query_type = <<>>
  /\ labels_batch = <<>>
  /\ labels_for_query_type = <<>>
  /\ NSIdle
  /\ EpochIdle
  /\ TrainIdle

\* _prepare: the arrays of every enabled query type and the cumulative
\* boundaries of the example space
KPrepare ==
  /\ pc = "prepare"
  /\ queries' = [t \in 1..Len(query_types) |-> index_KvsAll_to_torch(index[t]).queries]
  /\ self_labels' = [t \in 1..Len(query_types) |-> index_KvsAll_to_torch(index[t]).labels]
  /\ label_offsets' =
       [t \in 1..Len(query_types) |-> index_KvsAll_to_torch(index[t]).label_offsets]
  /\ query_end_index' =
       [t \in 1..Len(query_types) |-> SumSeq([x \in 1..t |-> Len(index[x])])]
  /\ num_examples' = SumSeq([x \in 1..Len(query_types) |-> Len(index[x])])
  /\ pc' = "loader"
  /\ KvsFrame
  /\ UNCHANGED <<batch, query_types, index, num_ones, batch_index, queries_batch,
                 query_type_indexes_batch, label_coords_batch, triples_batch,
                 current_index, written>>

\* sequences over xs of length n
RECURSIVE SeqsOfLen(_, _)
SeqsOfLen(xs, n) ==
  IF n = 0 THEN {<<>>}
  ELSE {<<x>> \o r : x \in xs, r \in SeqsOfLen(xs, n - 1)}

\* a batch of example indexes is handed to collate
KLoad ==
  /\ pc = "loader"
  /\ \E n \in 1..MaxKvBatch : batch' \in SeqsOfLen(0..(num_examples - 1), n)
  /\ num_ones' = 0
  /\ batch_index' = 0
  /\ pc' = "count"
  /\ KvsFrame
  /\ UNCHANGED <<query_types, index, queries, self_labels, label_offsets,
                 query_end_index, num_examples, queries_batch,
                 query_type_indexes_batch, label_coords_batch, triples_batch,
                 current_index, written>>

\* the search with <= in place of <
RECURSIVE SearchInclusive(_, _, _)
SearchInclusive(e, t, start) ==
  IF t > Len(query_types)
  THEN [found |-> FALSE, query_type_index |-> 0, example_index |-> e]
  ELSE IF e <= query_end_index[t]
       THEN [found |-> TRUE, query_type_index |-> t - 1, example_index |-> e - start]
       ELSE SearchInclusive(e, t + 1, query_end_index[t])

\* the loop over self.query_types of collate, from the t-th type on: the first
\* type with example_index < end, and the index local to it
RECURSIVE Search(_, _, _)
Search(e, t, start) ==
  IF t > Len(query_types)
  THEN [found |-> FALSE, query_type_index |-> 0, example_index |-> e]
  ELSE IF e < query_end_index[t]
       THEN [found |-> TRUE, query_type_index |-> t - 1, example_index |-> e - start]
       ELSE Search(e, t + 1, query_end_index[t])

\* one label counted per example
LabelCountOne(offsets, i) == 1

\* label_offsets[example_index + 1] - label_offsets[example_index]
LabelCount(offsets, i) == offsets[i + 2] - offsets[i + 1]

\* the counting loop, one example: an index past the end of label_offsets raises
KCount ==
  /\ pc = "count"
  /\ batch_index < Len(batch)
  /\ LET r == Search(batch[batch_index + 1], 1, 0)
     IN  IF ~r.found
         THEN /\ num_ones' = num_ones
              /\ pc' = "count"
         ELSE IF r.example_index + 2 > Len(label_offsets[r.query_type_index + 1])
         THEN /\ num_ones' = num_ones
              /\ pc' = "error"
         ELSE /\ num_ones' = num_ones
                   + LabelCount(label_offsets[r.query_type_index + 1], r.example_index)
              /\ pc' = "count"
  /\ batch_index' = batch_index + 1
  /\ KvsFrame
  /\ UNCHANGED <<batch, query_types, index, queries, self_labels, label_offsets,
                 query_end_index, num_examples, queries_batch,
                 query_type_indexes_batch, label_coords_batch, triples_batch,
                 current_index, written>>

\* torch.zeros([rows, cols])
Zeros(rows, cols) == [i \in 1..rows |-> [j \in 1..cols |-> 0]]

\* the batch elements are allocated
KAlloc ==
  /\ pc = "count"
  /\ batch_index = Len(batch)
  /\ queries_batch' = Zeros(Len(batch), 2)
  /\ query_type_indexes_batch' = [i \in 1..Len(batch) |-> 0]
  /\ label_coords_batch' = Zeros(num_ones, 2)
  /\ triples_batch' = Zeros(num_ones, 3)
  /\ written' = [i \in 1..num_ones |-> 0]
  /\ current_index' = 0
  /\ batch_index' = 0
  /\ pc' = "fill"
  /\ KvsFrame
  /\ UNCHANGED <<batch, query_types, index, queries, self_labels, label_offsets,
                 query_end_index, num_examples, num_ones>>

\* s_o laid out like sp_
LayoutNoSO(query_type) ==
  IF query_type = "sp_" \/ query_type = "s_o"
  THEN [query_col_1 |-> S, query_col_2 |-> P, target_col |-> O]
  ELSE [target_col |-> S, query_col_1 |-> P, query_col_2 |-> O]

\* the slots of the two query columns and of the target
Layout(query_type) ==
  IF query_type = "sp_"
  THEN [query_col_1 |-> S, query_col_2 |-> P, target_col |-> O]
  ELSE IF query_type = "s_o"
  THEN [query_col_1 |-> S, target_col |-> P, query_col_2 |-> O]
  ELSE [target_col |-> S, query_col_1 |-> P, query_col_2 |-> O]

\* column 0 written with the index of the example within its query type
FillCoordsLocal(coords, cur, size, b, e, labs) ==
  [x \in 1..Len(coords) |->
     IF cur < x /\ x <= cur + size THEN <<e, labs[x - cur]>> ELSE coords[x]]

\* label_coords_batch[cur:cur+size, 0] = batch_index;
\* label_coords_batch[cur:cur+size, 1] = labels[start:end]
FillCoords(coords, cur, size, b, e, labs) ==
  [x \in 1..Len(coords) |->
     IF cur < x /\ x <= cur + size THEN <<b, labs[x - cur]>> ELSE coords[x]]

\* triples_batch[cur:cur+size, ...] = the two query values and labels[start:end]
FillTriples(trs, cur, size, lay, query, labs) ==
  [x \in 1..Len(trs) |->
     IF cur < x /\ x <= cur + size
     THEN [c \in 1..3 |->
             IF c = lay.query_col_1 + 1 THEN query[1]
             ELSE IF c = lay.query_col_2 + 1 THEN query[2]
             ELSE labs[x - cur]]
     ELSE trs[x]]

\* the filling loop, one example: an index past the end of queries raises
KFill ==
  /\ pc = "fill"
  /\ batch_index < Len(batch)
  /\ LET r == Search(batch[batch_index + 1], 1, 0)
         t == r.query_type_index + 1
         example_index == r.example_index
     IN  IF ~r.found \/ example_index + 1 > Len(queries[t])
         THEN /\ pc' = "error"
              /\ UNCHANGED <<queries_batch, query_type_indexes_batch,
                             label_coords_batch, triples_batch, current_index,
                             written>>
         ELSE LET start == label_offsets[t][example_index + 1]
                  end == label_offsets[t][example_index + 2]
                  size == end - start
                  labs == SubSeq(self_labels[t], start + 1, end)
                  query == queries[t][example_index + 1]
              IN  /\ query_type_indexes_batch' =
                       [query_type_indexes_batch EXCEPT ![batch_index + 1] = t - 1]
                  /\ queries_batch' = [queries_batch EXCEPT ![batch_index + 1] = query]
                  /\ label_coords_batch' =
                       FillCoords(label_coords_batch, current_index, size,
                                  batch_index, example_index, labs)
                  /\ triples_batch' =
                       FillTriples(triples_batch, current_index, size,
                                   Layout(query_types[t]), query, labs)
                  /\ written' =
                       [x \in 1..Len(written) |->
                          IF current_index < x /\ x <= current_index + size
                          THEN written[x] + 1 ELSE written[x]]
                  /\ current_index' = current_index + size
                  /\ pc' = "fill"
  /\ batch_index' = batch_index + 1
  /\ KvsFrame
  /\ UNCHANGED <<batch, query_types, index, queries, self_labels, label_offsets,
                 query_end_index, num_examples, num_ones>>

\* all done: the batch dictionary is returned
KReturn ==
  /\ pc = "fill"
  /\ batch_index = Len(batch)
  /\ pc' = "done"
  /\ KvsFrame
  /\ UNCHANGED <<batch, query_types, index, queries, self_labels, label_offsets,
                 query_end_index, num_examples, num_ones, batch_index,
                 queries_batch, query_type_indexes_batch, label_coords_batch,
                 triples_batch, current_index, written>>

\* (xs == v).nonzero().view(-1): the 0-based positions of v in xs, ascending
RECURSIVE Nonzero(_, _, _)
Nonzero(xs, v, from) ==
  IF from > Len(xs) THEN <<>>
  ELSE (IF xs[from] = v THEN <<from - 1>> ELSE <<>>) \o Nonzero(xs, v, from + 1)

\* coord_to_sparse_tensor(nrows, ncols, coords).to_dense(): entry (i, j) is the
\* number of rows (i, j) of coords
CoordToDense(nrows, ncols, coords) ==
  [i \in 1..nrows |->
     [j \in 1..ncols |->
        Cardinality({x \in 1..Len(coords) : coords[x] = <<i - 1, j - 1>>})]]

\* number of label columns of a query type: relations for s_o, else entities
LabelCols(query_type) == IF query_type = "s_o" THEN num_relations ELSE num_entities

\* labels_batch[examples, :cols], every entry as num / den
LabelsOfType(dense, examples, cols) ==
  [r \in 1..Len(examples) |-> [c \in 1..cols |-> Rat(dense[examples[r] + 1][c], 1)]]

\* smoothing also when label_smoothing is 0
SmoothingDueAlways(eps) == TRUE

\* self.label_smoothing > 0.0
SmoothingDue(eps) == RatLess(Rat(0, 1), eps)

\* every query type smoothed
SmoothedTypeAll(query_type) == TRUE

\* query_type != "s_o": entity targets only
SmoothedType(query_type) == query_type # "s_o"

\* (1.0 - self.label_smoothing) * labels + 1.0 / labels.size(1)
Smooth(eps, labels_, cols) ==
  [r \in 1..Len(labels_) |->
     [c \in 1..cols |->
        RatAdd(RatMul(RatSub(Rat(1, 1), eps), labels_[r][c]), Rat(1, cols))]]

\* _process_batch, prepare: the examples of every query type, the dense labels
\* of the batch cut per query type, and the label smoothing
KProcessPrepare ==
  /\ pc = "done"
  /\ examples_for_query_type' =
       [t \in 1..Len(query_types) |-> Nonzero(query_type_indexes_batch, t - 1, 1)]
  /\ labels_batch' =
       CoordToDense(Len(queries_batch), Max2(num_entities, num_relations),
                    label_coords_batch)
  /\ labels_for_query_type' =
       [t \in 1..Len(query_types) |->
          LET unsmoothed == LabelsOfType(labels_batch', examples_for_query_type'[t],
                                         LabelCols(query_types[t]))
          IN  IF SmoothingDue(label_smoothing) /\ SmoothedType(query_types[t])
              THEN Smooth(label_smoothing, unsmoothed, LabelCols(query_types[t]))
              ELSE unsmoothed]
  /\ pc' = "forward"
  /\ UNCHANGED <<batch, nsOnlyVars, kvsVars, ctorVars, epochVars,
                 cfg_label_smoothing, auto_correct, label_smoothing, config_log,
                 trainVars>>

\* queries_batch[examples, col]
QueriesCol(examples, col) ==
  [x \in 1..Len(examples) |-> queries_batch[examples[x] + 1][col + 1]]

\* the scores of the examples of one query type: score_sp for sp_, score_so
\* for s_o, score_po for everything else
ScoresOfType(query_type, examples) ==
  IF query_type = "sp_"
  THEN score_sp(QueriesCol(examples, 0), QueriesCol(examples, 1))
  ELSE IF query_type = "s_o"
       THEN score_so(QueriesCol(examples, 0), QueriesCol(examples, 1))
       ELSE score_po(QueriesCol(examples, 0), QueriesCol(examples, 1))

\* the sum of a sequence of num / den values
RECURSIVE RatSum(_)
RatSum(xs) == IF xs = <<>> THEN Rat(0, 1) ELSE RatAdd(Head(xs), RatSum(Tail(xs)))

\* self.loss(scores, labels) of the KvsAll job: a sum of per-entry terms that
\* reads both the scores and the (possibly smoothed) labels
KvsLoss(scores_, labels_) ==
  RatSum([i \in 1..Len(scores_) |->
            RatSum([j \in 1..Len(scores_[i]) |->
                      RatMul(Rat(scores_[i][j] + 1, 1),
                             RatSub(Rat(1, 1), labels_[i][j]))])])

\* loss_value of query type number t: its loss divided by the batch size
LossOfType(t) ==
  LET l == KvsLoss(ScoresOfType(query_types[t], examples_for_query_type[t]),
                   labels_for_query_type[t])
  IN  Rat(l.num, l.den * Len(queries_batch))

\* loss_value_total after the loss of one more query type
LossValueTotal(total, loss_value_) == loss_value_

\* _process_batch, one round of the forward/backward loop: a query type with
\* examples in the batch is scored, its loss recorded and backpropagated
KForwardBackward ==
  /\ pc = "forward"
  /\ forward_index < Len(query_types)
  /\ LET t == forward_index + 1
     IN  IF Len(examples_for_query_type[t]) > 0
         THEN /\ loss_value_total' = LossValueTotal(loss_value_total, LossOfType(t))
              /\ backward_calls' = Append(backward_calls, LossOfType(t))
         ELSE UNCHANGED <<loss_value_total, backward_calls>>
  /\ forward_index' = forward_index + 1
  /\ UNCHANGED <<pc, batch, nsOnlyVars, kvsVars, ctorVars, epochVars, kvsJobVars,
                 epochSumVars, runVars, evokgVars>>

\* _process_batch, all done: the result carries loss_value_total as avg_loss
KProcessReturn ==
  /\ pc = "forward"
  /\ forward_index = Len(query_types)
  /\ pc' = "processed"
  /\ UNCHANGED <<batch, nsOnlyVars, kvsVars, ctorVars, epochVars, kvsJobVars,
                 trainVars>>

KvsNext ==
  \/ KPrepare
  \/ KLoad
  \/ KCount
  \/ KAlloc
  \/ KFill
  \/ KReturn
  \/ KProcessPrepare
  \/ KForwardBackward
  \/ KProcessReturn

SpecKvsAll == KvsInit /\ [][KvsNext]_vars

\* --------------------------------------------- TrainingJobKvsAll.__init__

\* the configured label smoothing values: the multiples of 1/(2 num_entities)
\* from below 0 to below 1 (config.check_range lets only values below 1.0 pass)
LabelSmoothingCfg ==
  {Rat(k, 2 * num_entities) : k \in (0 - 1)..(2 * num_entities - 1)}

\* the job is about to be constructed
KvsCtorInit ==
  /\ pc = "construct"
  /\ batch = <<>>
  /\ query_types \in QueryTypeConfigs
  /\ index \in [1..Len(query_types) -> IndexChoices]
  /\ queries = <<>>
  /\ self_labels = <<>>
  /\ label_offsets = <<>>
  /\ query_end_index = <<>>
  /\ num_examples = 0
  /\ num_ones = 0
  /\ batch_index = 0
  /\ queries_batch = <<>>
  /\ query_type_indexes_batch = <<>>
  /\ label_coords_batch = <<>>
  /\ triples_batch = <<>>
  /\ current_index = 0
  /\ written = <<>>
  /\ cfg_label_smoothing \in LabelSmoothingCfg
  /\ auto_correct \in BOOLEAN
  /\ label_smoothing = Rat(0, 1)
  /\ config_log = <<>>
  /\ examples_for_query_type = <<>>
  /\ labels_batch = <<>>
  /\ labels_for_query_type = <<>>
  /\ NSIdle
  /\ EpochIdle
  /\ TrainIdle

\* the second range test without its upper end
TooSmallExclusive(eps) ==
  RatLess(Rat(0, 1), eps) /\ RatLess(eps, Rat(1, num_entities))

\* self.label_smoothing > 0 and self.label_smoothing <= 1.0 / num_entities
TooSmall(eps) ==
  RatLess(Rat(0, 1), eps) /\ RatLeq(eps, Rat(1, num_entities))

\* every automatic correction setting 1/num_entities
CorrectedAlwaysUp(eps) == Rat(1, num_entities)

\* the value an automatic correction sets: 0 for a negative value, else
\* 1/num_entities
Corrected(eps) ==
  IF RatLess(eps, Rat(0, 1)) THEN Rat(0, 1) ELSE Rat(1, num_entities)

\* __init__: the label smoothing is read and tested; it is corrected and the
\* correction logged when auto-correct is on, else an Exception is raised
KConstruct ==
  /\ pc = "construct"
  /\ IF RatLess(cfg_label_smoothing, Rat(0, 1)) \/ TooSmall(cfg_label_smoothing)
     THEN IF auto_correct
          THEN /\ label_smoothing' = Corrected(cfg_label_smoothing)
               /\ config_log' = <<"label_smoothing_set", "initializing">>
               /\ pc' = "prepare"
          ELSE /\ label_smoothing' = cfg_label_smoothing
               /\ config_log' = <<>>
               /\ pc' = "error"
     ELSE /\ label_smoothing' = cfg_label_smoothing
          /\ config_log' = <<"initializing">>
          /\ pc' = "prepare"
  /\ UNCHANGED <<batch, nsOnlyVars, kvsVars, ctorVars, epochVars,
                 cfg_label_smoothing, auto_correct, examples_for_query_type,
                 labels_batch, labels_for_query_type, trainVars>>

KvsCtorNext ==
  \/ KConstruct
  \/ KPrepare

SpecKvsInit == KvsCtorInit /\ [][KvsCtorNext]_vars

\* ------------------------------------ TrainingJob.run_epoch: the batch loop

\* the values _process_batch may report as avg_loss
AvgLossValues == {Fin(2), NaN, PosInf, NegInf}

\* the lists of penalty terms self.model.penalty may return: none, one or two
\* terms, finite or not
PenaltyLists ==
  {<<>>, <<Fin(1)>>, <<NaN>>, <<NegInf>>, <<Fin(1), Fin(1)>>, <<Fin(1), PosInf>>,
   <<PosInf, NegInf>>}

\* run_epoch is entered, the statistics are reset and the loop over
\* self.last_t_loader is about to start
EpochInit ==
  /\ pc = "epoch_loop"
  /\ batch = <<>>
  /\ update_freq \in 1..MaxUpdateFreq
  /\ abort_on_nan \in BOOLEAN
  /\ num_batches \in 0..MaxEpochBatches
  /\ epoch_batch_index = 0
  /\ avg_loss = Fin(0)
  /\ penalties_torch = <<>>
  /\ penalty_index = 0
  /\ penalty = Fin(0)
  /\ cost_value = Fin(0)
  /\ epoch_calls = <<>>
  /\ epoch = 1
  /\ unapplied = <<>>
  /\ discarded = <<>>
  /\ self_batch_size = 1
  /\ last_t_num_examples = num_batches
  /\ self_num_examples = Max2(1, num_batches)
  /\ result_size = 0
  /\ sum_loss = Fin(0)
  /\ sum_penalty = Fin(0)
  /\ trace_entry = None
  /\ NSIdle
  /\ KvsIdle
  /\ KvsLossIdle
  /\ RunIdle
  /\ EvokgIdle

EpochFrame ==
  UNCHANGED <<batch, nsOnlyVars, kvsVars, ctorVars, kvsJobVars, kvsLossVars,
              runVars, evokgVars, self_num_examples, last_t_num_examples,
              self_batch_size>>

\* a * n of a float and an integer n >= 1
FMulInt(a, n) == IF a.kind = "fin" THEN Fin(a.val * n) ELSE a

\* a / n of a float and an integer n >= 1: a finite quotient is num / den
FDiv(a, n) == IF a.kind = "fin" THEN [kind |-> "fin", val |-> Rat(a.val, n)] ELSE a

\* len(self.loader): the number of batches of the whole train split
LenLoader == Ceil(self_num_examples, self_batch_size)

\* the number of examples of batch number batch_index_ of self.last_t_loader
BatchSizeOf(batch_index_) ==
  Min2(self_batch_size, last_t_num_examples - batch_index_ * self_batch_size)

Call(op_, batch_index_, arg_) == [op |-> op_, batch |-> batch_index_, arg |-> arg_]

\* batch_index % update_freq == 0
ZeroGradDue(batch_index_, update_freq_) == batch_index_ % update_freq_ = 0

\* step on the first batch of every group
StepDueFirst(batch_index_, update_freq_) == batch_index_ % update_freq_ = 0

\* batch_index % update_freq == update_freq - 1
StepDue(batch_index_, update_freq_) == batch_index_ % update_freq_ = update_freq_ - 1

\* the loader yields the next batch: optimizer.zero_grad() when due
EpochNextBatch ==
  /\ pc = "epoch_loop"
  /\ epoch_batch_index < num_batches
  /\ epoch_calls' =
       IF ZeroGradDue(epoch_batch_index, update_freq)
       THEN Append(epoch_calls, Call("zero_grad", epoch_batch_index, 0))
       ELSE epoch_calls
  /\ IF ZeroGradDue(epoch_batch_index, update_freq)
     THEN /\ discarded' = discarded \o unapplied
          /\ unapplied' = <<>>
     ELSE UNCHANGED <<discarded, unapplied>>
  /\ pc' = "epoch_process"
  /\ EpochFrame
  /\ UNCHANGED <<update_freq, abort_on_nan, num_batches, epoch_batch_index,
                 avg_loss, penalties_torch, penalty_index, penalty, cost_value,
                 epoch, result_size, sum_loss, sum_penalty, trace_entry>>

\* self._process_batch(batch_index, batch): forward and backward pass on the
\* loss; its avg_loss is any float
EpochProcessBatch ==
  /\ pc = "epoch_process"
  /\ \E l \in AvgLossValues : avg_loss' = l
  /\ epoch_calls' = Append(epoch_calls, Call("process_batch", epoch_batch_index, 0))
  /\ result_size' = BatchSizeOf(epoch_batch_index)
  /\ sum_loss' = FAdd(sum_loss, FMulInt(avg_loss', result_size'))
  /\ unapplied' = Append(unapplied, <<epoch, epoch_batch_index>>)
  /\ pc' = "epoch_penalty"
  /\ EpochFrame
  /\ UNCHANGED <<update_freq, abort_on_nan, num_batches, epoch_batch_index,
                 penalties_torch, penalty_index, penalty, cost_value,
                 epoch, discarded, sum_penalty, trace_entry>>

\* self.model.penalty(...): any list of penalty terms; penalty = 0.0
EpochPenalty ==
  /\ pc = "epoch_penalty"
  /\ penalties_torch' \in PenaltyLists
  /\ epoch_calls' =
       Append(epoch_calls, Call("penalty", epoch_batch_index, Len(penalties_torch')))
  /\ penalty' = Fin(0)
  /\ penalty_index' = 0
  /\ pc' = "epoch_penalty_backward"
  /\ EpochFrame
  /\ UNCHANGED <<update_freq, abort_on_nan, num_batches, epoch_batch_index,
                 avg_loss, cost_value, epoch, unapplied, discarded, result_size,
                 sum_loss, sum_penalty, trace_entry>>

\* one penalty term: backward pass, then added to penalty
EpochPenaltyBackward ==
  /\ pc = "epoch_penalty_backward"
  /\ penalty_index < Len(penalties_torch)
  /\ epoch_calls' =
       Append(epoch_calls, Call("penalty_backward", epoch_batch_index, penalty_index))
  /\ penalty' = FAdd(penalty, penalties_torch[penalty_index + 1])
  /\ penalty_index' = penalty_index + 1
  /\ EpochFrame
  /\ UNCHANGED <<pc, update_freq, abort_on_nan, num_batches, epoch_batch_index,
                 avg_loss, penalties_torch, cost_value, epoch, unapplied,
                 discarded, result_size, sum_loss, sum_penalty, trace_entry>>

\* the cost without the penalties
CostValueLossOnly(avg_loss_, penalty_) == avg_loss_

\* cost_value = batch_result.avg_loss + penalty
CostValue(avg_loss_, penalty_) == FAdd(avg_loss_, penalty_)

\* the abort whether or not abort-on-nan is enabled
AbortDueUnconditional(abort_on_nan_, cost_value_) == IsNan(cost_value_)

\* self.abort_on_nan and math.isnan(cost_value)
AbortDue(abort_on_nan_, cost_value_) == abort_on_nan_ /\ IsNan(cost_value_)

\* the full cost of the batch; FloatingPointError when it is nan and
\* abort-on-nan is enabled
EpochCost ==
  /\ pc = "epoch_penalty_backward"
  /\ penalty_index = Len(penalties_torch)
  /\ sum_penalty' = FAdd(sum_penalty, penalty)
  /\ cost_value' = CostValue(avg_loss, penalty)
  /\ pc' = IF AbortDue(abort_on_nan, cost_value') THEN "error" ELSE "epoch_step"
  /\ EpochFrame
  /\ UNCHANGED <<update_freq, abort_on_nan, num_batches, epoch_batch_index,
                 avg_loss, penalties_torch, penalty_index, penalty, epoch_calls,
                 epoch, unapplied, discarded, result_size, sum_loss, trace_entry>>

\* update parameters: optimizer.step() when due; the batch is traced and the
\* loop goes on: the values of the iteration (batch_result, penalties_torch,
\* penalty, cost_value) are not read again and are given up
EpochStep ==
  /\ pc = "epoch_step"
  /\ epoch_calls' =
       IF StepDue(epoch_batch_index, update_freq)
       THEN Append(epoch_calls, Call("step", epoch_batch_index, 0))
       ELSE epoch_calls
  /\ unapplied' = IF StepDue(epoch_batch_index, update_freq) THEN <<>> ELSE unapplied
  /\ epoch_batch_index' = epoch_batch_index + 1
  /\ avg_loss' = Fin(0)
  /\ penalties_torch' = <<>>
  /\ penalty_index' = 0
  /\ penalty' = Fin(0)
  /\ cost_value' = Fin(0)
  /\ result_size' = 0
  /\ pc' = "epoch_loop"
  /\ EpochFrame
  /\ UNCHANGED <<update_freq, abort_on_nan, num_batches, epoch, discarded,
                 sum_loss, sum_penalty, trace_entry>>

\* the loader is exhausted: the epoch is traced and returned
EpochEnd ==
  /\ pc = "epoch_loop"
  /\ epoch_batch_index = num_batches
  /\ trace_entry' =
       [batches |-> LenLoader,
        size |-> self_num_examples,
        avg_loss |-> FDiv(sum_loss, self_num_examples),
        avg_penalty |-> FDiv(sum_penalty, LenLoader)]
  /\ pc' = "epoch_done"
  /\ EpochFrame
  /\ UNCHANGED <<epochVars, epoch, unapplied, discarded, result_size, sum_loss, sum_penalty>>

EpochNext ==
  \/ EpochNextBatch
  \/ EpochProcessBatch
  \/ EpochPenalty
  \/ EpochPenaltyBackward
  \/ EpochCost
  \/ EpochStep
  \/ EpochEnd

SpecEpoch == EpochInit /\ [][EpochNext]_vars

\* ------------------------------------------ run_epoch, epoch after epoch

\* largest train split (examples) and number of epochs run in a row
MaxTrainSize == 3
MaxEpochs == 2

\* the train split has 1..MaxTrainSize examples, of which the ones with the last
\* time stamp (at least one) are what self.last_t_loader yields
EpochsInit ==
  /\ pc = "epoch_loop"
  /\ batch = <<>>
  /\ update_freq \in 1..MaxUpdateFreq
  /\ abort_on_nan \in BOOLEAN
  /\ self_num_examples \in 1..MaxTrainSize
  /\ last_t_num_examples \in 1..self_num_examples
  /\ self_batch_size \in 1..MaxTrainSize
  /\ num_batches = Ceil(last_t_num_examples, self_batch_size)
  /\ epoch_batch_index = 0
  /\ avg_loss = Fin(0)
  /\ penalties_torch = <<>>
  /\ penalty_index = 0
  /\ penalty = Fin(0)
  /\ cost_value = Fin(0)
  /\ epoch_calls = <<>>
  /\ epoch = 1
  /\ unapplied = <<>>
  /\ discarded = <<>>
  /\ result_size = 0
  /\ sum_loss = Fin(0)
  /\ sum_penalty = Fin(0)
  /\ trace_entry = None
  /\ NSIdle
  /\ KvsIdle
  /\ KvsLossIdle
  /\ RunIdle
  /\ EvokgIdle

\* TrainingJob.run starts the next epoch: self.epoch += 1 and run_epoch again
EpochAgain ==
  /\ pc = "epoch_done"
  /\ epoch < MaxEpochs
  /\ epoch' = epoch + 1
  /\ epoch_batch_index' = 0
  /\ avg_loss' = Fin(0)
  /\ penalties_torch' = <<>>
  /\ penalty_index' = 0
  /\ penalty' = Fin(0)
  /\ cost_value' = Fin(0)
  /\ epoch_calls' = <<>>
  /\ result_size' = 0
  /\ sum_loss' = Fin(0)
  /\ sum_penalty' = Fin(0)
  /\ trace_entry' = None
  /\ pc' = "epoch_loop"
  /\ EpochFrame
  /\ UNCHANGED <<update_freq, abort_on_nan, num_batches, unapplied, discarded>>

EpochsNext == EpochNext \/ EpochAgain

SpecEpochs == EpochsInit /\ [][EpochsNext]_vars

\* -------------------------------------------------------- TrainingJob.run

\* largest train.max_epochs
MaxRunEpochs == 4

\* the metric values a validation run may report
MetricValues == {1, 2}

\* the settings of valid.every, valid.early_stopping.patience and
\* valid.early_stopping.min_threshold
ValidEveryCfg == {0, 1, 2}
PatienceCfg == {0, 1, 2}
MinThresholdCfg ==
  {[epochs |-> 0, metric_value |-> 0], [epochs |-> 1, metric_value |-> 2]}

\* the settings of train.checkpoint.every and train.checkpoint.keep
CheckpointCfg == {<<0, 0>>, <<0, 1>>, <<1, 0>>, <<1, 1>>, <<1, 2>>, <<2, 1>>}

\* a new job: epoch 0, no validation yet, no checkpoint on disk
RunInit ==
  /\ pc = "run_check"
  /\ batch = <<>>
  /\ max_epochs \in 0..MaxRunEpochs
  /\ valid_every \in ValidEveryCfg
  /\ patience \in PatienceCfg
  /\ min_threshold \in MinThresholdCfg
  /\ \E c \in CheckpointCfg : checkpoint_every = c[1] /\ checkpoint_keep = c[2]
  /\ post_train_hooks \in 0..1
  /\ epoch = 0
  /\ valid_trace = <<>>
  /\ checkpoints = {}
  /\ best_checkpoint = 0
  /\ run_log = <<>>
  /\ start_epoch = 0
  /\ resumed = FALSE
  /\ trace_entry = None
  /\ unapplied = <<>>
  /\ discarded = <<>>
  /\ self_num_examples = 0
  /\ last_t_num_examples = 0
  /\ self_batch_size = 1
  /\ result_size = 0
  /\ sum_loss = Fin(0)
  /\ sum_penalty = Fin(0)
  /\ NSIdle
  /\ KvsIdle
  /\ EpochIdle
  /\ KvsLossIdle
  /\ EvokgIdle

RunFrame ==
  UNCHANGED <<batch, nsOnlyVars, kvsVars, ctorVars, epochVars, kvsJobVars,
              kvsLossVars, evokgVars, unapplied, discarded, self_num_examples,
              last_t_num_examples, self_batch_size, result_size, sum_loss,
              sum_penalty>>

\* the last position of the greatest metric value
BestIndexLast(valid_trace_) ==
  (CHOOSE i \in 1..Len(valid_trace_) :
     /\ \A j \in 1..Len(valid_trace_) : valid_trace_[j].metric <= valid_trace_[i].metric
     /\ \A j \in (i + 1)..Len(valid_trace_) : valid_trace_[j].metric < valid_trace_[i].metric) - 1

\* max(range(len(valid_trace)), key=metric): the first position, from 0, of
\* the greatest metric value
BestIndex(valid_trace_) ==
  (CHOOSE i \in 1..Len(valid_trace_) :
     /\ \A j \in 1..Len(valid_trace_) : valid_trace_[j].metric <= valid_trace_[i].metric
     /\ \A j \in 1..(i - 1) : valid_trace_[j].metric < valid_trace_[i].metric) - 1

\* the newest entry of self.valid_trace is of the epoch just finished
ValidatedNow ==
  /\ Len(valid_trace) > 0
  /\ valid_trace[Len(valid_trace)].epoch = epoch

\* the metric did not improve in the last patience validation runs
PatienceStop ==
  /\ ValidatedNow
  /\ patience > 0
  /\ Len(valid_trace) > patience
  /\ BestIndex(valid_trace) < Len(valid_trace) - patience

\* the metric did not achieve the min threshold after the threshold epochs
ThresholdStop ==
  /\ ValidatedNow
  /\ epoch > min_threshold.epochs
  /\ valid_trace[BestIndex(valid_trace) + 1].metric < min_threshold.metric_value

LogEntry(ev_, epoch_) == [ev |-> ev_, epoch |-> epoch_]

\* top of the loop of run: the best checkpoint is saved when the newest
\* validation is the best one; the loop is left by early stopping or when
\* max_epochs is reached
RunCheck ==
  /\ pc = "run_check"
  /\ best_checkpoint' =
       IF ValidatedNow /\ BestIndex(valid_trace) = Len(valid_trace) - 1
       THEN epoch ELSE best_checkpoint
  /\ IF PatienceStop
     THEN /\ run_log' = Append(run_log, LogEntry("stop_patience", epoch))
          /\ pc' = "run_finish"
     ELSE IF ThresholdStop
     THEN /\ run_log' = Append(run_log, LogEntry("stop_min_threshold", epoch))
          /\ pc' = "run_finish"
     ELSE IF epoch >= max_epochs
     THEN /\ run_log' = Append(run_log, LogEntry("stop_max_epochs", epoch))
          /\ pc' = "run_finish"
     ELSE /\ run_log' = run_log
          /\ pc' = "run_epoch"
  /\ RunFrame
  /\ UNCHANGED <<epoch, trace_entry, max_epochs, valid_every, patience,
                 min_threshold, checkpoint_every, checkpoint_keep,
                 post_train_hooks, valid_trace, checkpoints, start_epoch, resumed>>

\* start a new epoch: self.epoch += 1, trace_entry = self.run_epoch()
RunEpoch ==
  /\ pc = "run_epoch"
  /\ epoch' = epoch + 1
  /\ run_log' = Append(run_log, LogEntry("run_epoch", epoch'))
  /\ trace_entry' = [event |-> "epoch_completed", epoch |-> epoch']
  /\ pc' = "run_validate"
  /\ RunFrame
  /\ UNCHANGED <<max_epochs, valid_every, patience, min_threshold,
                 checkpoint_every, checkpoint_keep, post_train_hooks, valid_trace,
                 checkpoints, best_checkpoint, start_epoch, resumed>>

\* validate when the epoch is a multiple of valid.every: the validation job
\* reports any metric value, its trace entry is appended to self.valid_trace
RunValidate ==
  /\ pc = "run_validate"
  /\ IF valid_every > 0 /\ epoch % valid_every = 0
     THEN /\ \E m \in MetricValues :
               valid_trace' = Append(valid_trace, [epoch |-> epoch, metric |-> m])
          /\ trace_entry' = [event |-> "eval_completed", epoch |-> epoch]
     ELSE UNCHANGED <<valid_trace, trace_entry>>
  /\ pc' = "run_checkpoint"
  /\ RunFrame
  /\ UNCHANGED <<epoch, max_epochs, valid_every, patience, min_threshold,
                 checkpoint_every, checkpoint_keep, post_train_hooks, checkpoints,
                 best_checkpoint, run_log, start_epoch, resumed>>

\* always the checkpoint of the epoch before
DeleteCheckpointEpochPrevious(epoch_, checkpoint_every_, checkpoint_keep_) == epoch_ - 1

\* delete_checkpoint_epoch for epoch_ > 1
DeleteCheckpointEpoch(epoch_, checkpoint_every_, checkpoint_keep_) ==
  IF checkpoint_every_ = 0 THEN epoch_ - 1
  ELSE IF (epoch_ - 1) % checkpoint_every_ # 0 THEN epoch_ - 1
  ELSE IF checkpoint_keep_ > 0 THEN epoch_ - 1 - checkpoint_every_ * checkpoint_keep_
  ELSE 0 - 1

\* create the checkpoint of the epoch and delete an old one, if necessary
RunCheckpoint ==
  /\ pc = "run_checkpoint"
  /\ checkpoints' =
       (checkpoints \cup {epoch}) \
         (IF epoch > 1
             /\ DeleteCheckpointEpoch(epoch, checkpoint_every, checkpoint_keep) > 0
          THEN {DeleteCheckpointEpoch(epoch, checkpoint_every, checkpoint_keep)}
          ELSE {})
  /\ pc' = "run_check"
  /\ RunFrame
  /\ UNCHANGED <<epoch, trace_entry, max_epochs, valid_every, patience,
                 min_threshold, checkpoint_every, checkpoint_keep,
                 post_train_hooks, valid_trace, best_checkpoint, run_log,
                 start_epoch, resumed>>

\* after the loop: every post-train hook is called with trace_entry, which is
\* unbound (UnboundLocalError) when the loop ran no epoch; then the
\* train_completed trace
RunFinish ==
  /\ pc = "run_finish"
  /\ IF post_train_hooks > 0 /\ trace_entry = None
     THEN /\ pc' = "error"
          /\ run_log' = run_log
     ELSE /\ pc' = "run_completed"
          /\ run_log' = Append(run_log, LogEntry("train_completed", epoch))
  /\ RunFrame
  /\ UNCHANGED <<epoch, trace_entry, max_epochs, valid_every, patience,
                 min_threshold, checkpoint_every, checkpoint_keep,
                 post_train_hooks, valid_trace, checkpoints, best_checkpoint,
                 start_epoch, resumed>>

\* the job is resumed from the checkpoint of its last epoch, train.max_epochs
\* kept or raised: _load restores self.epoch and self.valid_trace, run starts over
RunResume ==
  /\ pc = "run_completed"
  /\ ~resumed
  /\ resumed' = TRUE
  /\ max_epochs' \in max_epochs..MaxRunEpochs
  /\ start_epoch' = epoch
  /\ trace_entry' = None
  /\ run_log' = <<>>
  /\ pc' = "run_check"
  /\ RunFrame
  /\ UNCHANGED <<epoch, valid_every, patience, min_threshold, checkpoint_every,
                 checkpoint_keep, post_train_hooks, valid_trace, checkpoints,
                 best_checkpoint>>

RunNext ==
  \/ RunCheck
  \/ RunEpoch
  \/ RunValidate
  \/ RunCheckpoint
  \/ RunFinish
  \/ RunResume

SpecRun == RunInit /\ [][RunNext]_vars

\* ------------------------------------------- run_epoch, the evokg loop

\* largest len(self.evokg_train_data_loader) and evokg.rnn_truncate_every
MaxTrainBatches == 4
MaxTruncateEvery == 3

\* the settings of evokg.optimize
OptimizeCfg == {"edge", "time", "both"}

EvokgInit ==
  /\ pc = "evokg_loss"
  /\ batch = <<>>
  /\ num_train_batches \in 1..MaxTrainBatches
  /\ rnn_truncate_every \in 1..MaxTruncateEvery
  /\ evokg_optimize \in OptimizeCfg
  /\ batch_i = 0
  /\ batch_train_loss = <<>>
  /\ evokg_calls = <<>>
  /\ NSIdle
  /\ KvsIdle
  /\ EpochIdle
  /\ KvsLossIdle
  /\ EpochSumIdle
  /\ RunIdle

EvokgFrame ==
  UNCHANGED <<batch, nsOnlyVars, kvsVars, ctorVars, epochVars, kvsJobVars,
              kvsLossVars, epochSumVars, runVars, num_train_batches,
              rnn_truncate_every, evokg_optimize>>

\* batch_i == num_train_batches - 1
LastBatch(batch_i_) == batch_i_ = num_train_batches - 1

\* batch_i > 0 and ((batch_i % rnn_truncate_every == 0) or last_batch)
TruncateDue(batch_i_) ==
  batch_i_ > 0 /\ (batch_i_ % rnn_truncate_every = 0 \/ LastBatch(batch_i_))

\* the step and zero_grad calls of the optimizers that evokg.optimize enables
OptimizerSteps(batch_i_) ==
  (IF evokg_optimize \in {"edge", "both"}
   THEN <<Call("edge_step", batch_i_, 0), Call("edge_zero_grad", batch_i_, 0)>>
   ELSE <<>>)
  \o (IF evokg_optimize \in {"time", "both"}
      THEN <<Call("time_step", batch_i_, 0), Call("time_zero_grad", batch_i_, 0)>>
      ELSE <<>>)

\* the loader yields batch batch_i: its loss is computed and added to
\* batch_train_loss
EvokgLoss ==
  /\ pc = "evokg_loss"
  /\ batch_i < num_train_batches
  /\ batch_train_loss' = Append(batch_train_loss, batch_i)
  /\ evokg_calls' = Append(evokg_calls, Call("loss", batch_i, 0))
  /\ pc' = "evokg_truncate"
  /\ EvokgFrame
  /\ UNCHANGED batch_i

\* when due: backward on the accumulated loss, which is reset, then the steps
\* of the optimizers; in any case the embeddings are updated and the loop
\* goes on
EvokgTruncate ==
  /\ pc = "evokg_truncate"
  /\ IF TruncateDue(batch_i)
     THEN /\ evokg_calls' =
               Append(evokg_calls, Call("backward", batch_i, batch_train_loss))
                 \o OptimizerSteps(batch_i)
          /\ batch_train_loss' = <<>>
     ELSE UNCHANGED <<evokg_calls, batch_train_loss>>
  /\ batch_i' = batch_i + 1
  /\ pc' = "evokg_loss"
  /\ EvokgFrame

\* the loader is exhausted
EvokgEnd ==
  /\ pc = "evokg_loss"
  /\ batch_i = num_train_batches
  /\ pc' = "evokg_done"
  /\ EvokgFrame
  /\ UNCHANGED <<batch_i, batch_train_loss, evokg_calls>>

EvokgNext ==
  \/ EvokgLoss
  \/ EvokgTruncate
  \/ EvokgEnd

SpecEvokg == EvokgInit /\ [][EvokgNext]_vars

\* ------------------------------------------------------------------ claims

\* row i of the chunk with its slot value replaced by v
ReplaceSlot(tr, slot_, v) == [tr EXCEPT ![slot_ + 1] = v]

\* the target of entry (i, j): the positive for j = 1, else negative j - 1
TargetOf(i, j) ==
  IF j = 1 THEN triples[i][slot + 1] ELSE negative_samples[slot + 1][i][j - 1]

\* the score of entry (i, j) of the [chunk_size, 1 + k] layout
ScoreOfEntry(i, j) ==
  LET tr == ReplaceSlot(triples[i], slot, TargetOf(i, j))
  IN  ScoreFn(tr[S + 1], tr[P + 1], tr[O + 1])

\* m is the [chunk_size, 1 + k] matrix of the scores of its entries
IsScoreMatrix(m) ==
  /\ Len(m) = Len(triples)
  /\ \A i \in 1..Len(m) :
       /\ Len(m[i]) = 1 + num_samples[slot + 1]
       /\ \A j \in 1..Len(m[i]) : m[i][j] = ScoreOfEntry(i, j)

\* C1: for any chunk, any slot with k > 0, any negatives and a fixed scoring
\* function, the triple, all and batch implementations each give a matrix of
\* shape [chunk_size, 1 + k] whose entry (i, 0) is the score of the positive
\* triple of row i and entry (i, j) the score of row i with the slot replaced
\* by its j-th negative; the three matrices are equal.
C1_StrategiesAgree ==
  pc = "scored" =>
    /\ IsScoreMatrix(scores)
    /\ IsScoreMatrix(ScoresTriple(triples, negative_samples[slot + 1], slot,
                                  num_samples[slot + 1], chunk_size))
    /\ IsScoreMatrix(ScoresAll(triples, negative_samples[slot + 1], slot,
                               num_samples[slot + 1], chunk_size))
    /\ IsScoreMatrix(ScoresBatch(triples, negative_samples[slot + 1], slot,
                                 num_samples[slot + 1], chunk_size))

\* a chunk of several rows scored with "batch" where a negative of one row is
\* the positive of another row and a row repeats a negative
C1_Witness ==
  /\ pc = "scored"
  /\ implementation = "batch"
  /\ Len(triples) >= 2
  /\ num_samples[slot + 1] >= 2
  /\ negative_samples[slot + 1][1][1] = triples[2][slot + 1]
  /\ negative_samples[slot + 1][2][1] = negative_samples[slot + 1][2][2]
  /\ negative_samples[slot + 1][1][1] # triples[1][slot + 1]

\* the rows covered by the chunks logged so far
ChunkRows == UNION {chunks[i][1]..(chunks[i][2] - 1) : i \in 1..Len(chunks)}

\* every chunk is non-empty, holds at most max_chunk_size rows and starts where
\* the chunk before it ended (the first at 0)
ChunksContiguous ==
  \A i \in 1..Len(chunks) :
    /\ chunks[i][1] < chunks[i][2]
    /\ chunks[i][2] - chunks[i][1] <= max_chunk_size
    /\ chunks[i][2] <= Len(batch)
    /\ chunks[i][1] = IF i = 1 THEN 0 ELSE chunks[i - 1][2]

C8_LossDividedByBatchSize ==
  pc = "backward" =>
    /\ loss_value_torch.den = Len(batch)
    /\ loss_value_torch.num = Loss(scores, labels, num_samples[slot + 1])

\* the loss of a shorter last chunk is about to be backpropagated
C8_Witness ==
  /\ pc = "backward"
  /\ chunk_number > 0
  /\ chunk_size < max_chunk_size
  /\ chunk_size < Len(batch)

\* slots with negatives
ActiveSlots == {s \in {S, P, O} : num_samples[s + 1] > 0}

CallOps == <<"score", "loss", "backward">>

\* C9: for each chunk and each slot with k > 0 there is exactly one score, one
\* loss and one backward call, in this order and before anything is scored for
\* the next slot or chunk; slots with k = 0 are never scored; a finished batch
\* made (number of chunks) x (number of slots with k > 0) backward calls.
C9_OneBackwardPerChunkSlot ==
  /\ \A x \in 1..Len(calls) :
       /\ calls[x].op = CallOps[((x - 1) % 3) + 1]
       /\ calls[x].slot \in ActiveSlots
       /\ calls[x].chunk \in 0..(Len(chunks) - 1)
       /\ (x - 1) % 3 # 0 =>
            (calls[x].chunk = calls[x - 1].chunk /\ calls[x].slot = calls[x - 1].slot)
       /\ x > 3 =>
            \/ calls[x].chunk > calls[x - 3].chunk
            \/ (calls[x].chunk = calls[x - 3].chunk /\ calls[x].slot > calls[x - 3].slot)
  /\ Len(calls) % 3 = (IF pc = "loss" THEN 1 ELSE IF pc = "backward" THEN 2 ELSE 0)
  /\ pc = "done" =>
       /\ Len(calls) = 3 * Len(chunks) * Cardinality(ActiveSlots)
       /\ \A c \in 0..(Len(chunks) - 1) : \A s \in ActiveSlots :
            \E x \in 1..Len(calls) :
              calls[x] = [op |-> "backward", chunk |-> c, slot |-> s]

\* a batch of several chunks with a skipped slot and two scored slots is done
C9_Witness ==
  /\ pc = "done"
  /\ Len(chunks) >= 2
  /\ Cardinality(ActiveSlots) = 2
  /\ Len(calls) = 3 * 2 * Len(chunks)

\* C10: at every loss call the labels have shape [chunk_size, 1 + k] for the
\* current chunk and slot, column 0 all ones and the other columns zero.
C10_LabelsPositiveFirst ==
  pc = "loss" =>
    /\ chunk_size = chunk_end - chunk_start
    /\ Len(labels) = chunk_size
    /\ \A i \in 1..Len(labels) :
         /\ Len(labels[i]) = 1 + num_samples[slot + 1]
         /\ \A j \in 1..Len(labels[i]) : labels[i][j] = (IF j = 1 THEN 1 ELSE 0)

\* a loss call of a shorter last chunk after a slot with another k
C10_Witness ==
  /\ pc = "loss"
  /\ chunk_number > 0
  /\ chunk_size < max_chunk_size
  /\ slot = O
  /\ num_samples[S + 1] > 0
  /\ num_samples[P + 1] > 0
  /\ num_samples[P + 1] # num_samples[O + 1]

\* lower boundary of the t-th query type in the example space
LowerOf(t) == IF t = 1 THEN 0 ELSE query_end_index[t - 1]

\* the query types (1-based) whose range of example indexes holds e
TypesOf(e) ==
  {t \in 1..Len(query_types) : LowerOf(t) <= e /\ e < query_end_index[t]}

TypeOfExample(e) == CHOOSE t \in TypesOf(e) : TRUE

LocalOf(e) == e - LowerOf(TypeOfExample(e))

\* offsets[i+1] - offsets[i] of example e
SizeOfExample(e) ==
  label_offsets[TypeOfExample(e)][LocalOf(e) + 2]
    - label_offsets[TypeOfExample(e)][LocalOf(e) + 1]

\* labels[offsets[i]:offsets[i+1]] of example e
LabelsOfExample(e) ==
  SubSeq(self_labels[TypeOfExample(e)],
         label_offsets[TypeOfExample(e)][LocalOf(e) + 1] + 1,
         label_offsets[TypeOfExample(e)][LocalOf(e) + 2])

\* number of labels of the first n examples of the batch
LabelsBefore(n) == SumSeq([b \in 1..n |-> SizeOfExample(batch[b])])

\* C3: label_coords is allocated with exactly the sum over the batch examples
\* of offsets[i+1] - offsets[i] rows; the write cursor of the fill loop never
\* exceeds that total, equals it when the loop ends, and every allocated row
\* is written exactly once.
C3_LabelCoordsExactlySized ==
  /\ pc \in {"fill", "done"} =>
       /\ num_ones = LabelsBefore(Len(batch))
       /\ Len(label_coords_batch) = LabelsBefore(Len(batch))
       /\ current_index = LabelsBefore(batch_index)
       /\ current_index <= Len(label_coords_batch)
       /\ Len(written) = Len(label_coords_batch)
       /\ \A x \in 1..Len(written) : written[x] = (IF x <= current_index THEN 1 ELSE 0)
  /\ pc = "done" =>
       /\ current_index = Len(label_coords_batch)
       /\ \A x \in 1..Len(written) : written[x] = 1

\* a finished batch mixing query types, with an example of several labels
C3_Witness ==
  /\ pc = "done"
  /\ Len(batch) >= 2
  /\ query_type_indexes_batch[1] # query_type_indexes_batch[2]
  /\ current_index >= 3

\* C4: for every batch position b the rows of label_coords with column 0 = b
\* are one contiguous block of offsets[i+1] - offsets[i] rows holding
\* labels[offsets[i]:offsets[i+1]] in column 1; the blocks are in batch order
\* and every column 0 value lies in [0, batch_size).
C4_LabelCoordsBlocks ==
  pc = "done" =>
    /\ \A b \in 1..Len(batch) :
         /\ {x \in 1..Len(label_coords_batch) : label_coords_batch[x][1] = b - 1}
              = (LabelsBefore(b - 1) + 1)..LabelsBefore(b)
         /\ \A x \in (LabelsBefore(b - 1) + 1)..LabelsBefore(b) :
              label_coords_batch[x][2] = LabelsOfExample(batch[b])[x - LabelsBefore(b - 1)]
    /\ \A x \in 1..Len(label_coords_batch) :
         /\ label_coords_batch[x][1] \in 0..(Len(batch) - 1)
         /\ x > 1 => label_coords_batch[x - 1][1] <= label_coords_batch[x][1]

\* a finished batch whose examples are not in index order, the second one
\* local to a later query type than the first and with several labels
C4_Witness ==
  /\ pc = "done"
  /\ Len(batch) >= 2
  /\ batch[1] > batch[2]
  /\ LocalOf(batch[1]) # 0
  /\ SizeOfExample(batch[2]) >= 2

\* C5: every example index e of the batch is resolved to the unique query type
\* t with query_end_index[t-1] <= e < query_end_index[t] and to the local index
\* e - query_end_index[t-1]; t is stored in query_type_indexes and
\* queries[t][local index] in the queries row, also when an enabled query type
\* has no examples; the lookup never runs past the arrays.
C5_ExampleResolution ==
  /\ pc # "error"
  /\ pc \in {"fill", "done"} =>
       \A b \in 1..batch_index :
         /\ Cardinality(TypesOf(batch[b])) = 1
         /\ query_type_indexes_batch[b] = TypeOfExample(batch[b]) - 1
         /\ queries_batch[b] = queries[TypeOfExample(batch[b])][LocalOf(batch[b]) + 1]

\* a finished batch with an example of the second query type, the first
\* enabled query type having no examples
C5_Witness ==
  /\ pc = "done"
  /\ query_end_index[1] = 0
  /\ \E b \in 1..Len(batch) :
       /\ query_type_indexes_batch[b] >= 1
       /\ LocalOf(batch[b]) >= 1

\* C6: for every query type label_offsets has N + 1 entries for N queries, is
\* non-decreasing, starts with 0 and ends with len(labels), so the slices
\* labels[offsets[i]:offsets[i+1]] are disjoint and cover all labels.
C6_LabelOffsets ==
  pc # "prepare" =>
    \A t \in 1..Len(query_types) :
      /\ Len(label_offsets[t]) = Len(queries[t]) + 1
      /\ label_offsets[t][1] = 0
      /\ label_offsets[t][Len(label_offsets[t])] = Len(self_labels[t])
      /\ \A i \in 1..(Len(label_offsets[t]) - 1) :
           label_offsets[t][i] <= label_offsets[t][i + 1]

\* a prepared query type with two queries and three labels
C6_Witness ==
  /\ pc = "loader"
  /\ \E t \in 1..Len(query_types) :
       /\ Len(queries[t]) = 2
       /\ Len(self_labels[t]) = 3
       /\ label_offsets[t] = <<0, 2, 3>>

\* the (S,P,O) row of a query of a query type with one of its labels
FactOf(query_type, query, label) ==
  IF query_type = "sp_" THEN <<query[1], query[2], label>>
  ELSE IF query_type = "s_o" THEN <<query[1], label, query[2]>>
  ELSE <<label, query[1], query[2]>>

\* C7: there is exactly one triples row per label_coords row, and it is the
\* (S,P,O) fact of its example: (q0, q1, label) for sp_, (q0, label, q1) for
\* s_o, (label, q0, q1) for _po, with the label of the same label_coords row.
C7_TriplesAreFacts ==
  pc = "done" =>
    /\ Len(triples_batch) = Len(label_coords_batch)
    /\ \A x \in 1..Len(triples_batch) :
         LET b == label_coords_batch[x][1] + 1
         IN  triples_batch[x] =
               FactOf(query_types[query_type_indexes_batch[b] + 1],
                      queries_batch[b], label_coords_batch[x][2])

\* a finished batch with an s_o example whose key values and label all differ
C7_Witness ==
  /\ pc = "done"
  /\ \E x \in 1..Len(triples_batch) :
       /\ query_types[query_type_indexes_batch[label_coords_batch[x][1] + 1] + 1] = "s_o"
       /\ triples_batch[x] = <<0, 2, 1>>

\* C14: with implementation "triple", a chunk of n triples and a slot with k
\* negatives expands into exactly n * (1 + k) triples to score; expanded triple
\* i * (1 + k) is row i itself and expanded triple i * (1 + k) + j, 1 <= j <= k,
\* is row i with only the slot replaced by the j-th negative of row i; the
\* triples of the chunk are as they were before the expansion.
C14_TripleExpansion ==
  (pc = "scored" /\ implementation = "triple") =>
    LET n == Len(triples)
        k == num_samples[slot + 1]
    IN  /\ Len(triples_to_score) = n * (1 + k)
        /\ \A i \in 0..(n - 1) :
             /\ triples_to_score[i * (1 + k) + 1] = triples[i + 1]
             /\ \A j \in 1..k :
                  triples_to_score[i * (1 + k) + j + 1] =
                    ReplaceSlot(triples[i + 1], slot, negative_samples[slot + 1][i + 1][j])
        /\ triples = batch_triples

\* two different rows were expanded with two negatives each, the negatives of
\* the first row differing from each other and from its positive
C14_Witness ==
  /\ pc = "scored"
  /\ implementation = "triple"
  /\ Len(triples) = 2
  /\ triples[1] # triples[2]
  /\ num_samples[slot + 1] = 2
  /\ Len(triples_to_score) = 6
  /\ negative_samples[slot + 1][1][1] # negative_samples[slot + 1][1][2]
  /\ negative_samples[slot + 1][1][1] # triples[1][slot + 1]

\* the loss of the whole batch processed as one chunk: per slot with k > 0 the
\* loss of the scores of all rows, divided by the batch size
OneChunkLoss ==
  Rat(SumSeq([s \in 1..3 |->
                IF num_samples[s] <= 0 THEN 0
                ELSE Loss(ComputeScores(implementation, batch_triples,
                                        batch_negative_samples[s], SLOTS[s],
                                        num_samples[s], Len(batch_triples)),
                          ZerosFirstOne(Len(batch_triples), 1 + num_samples[s]),
                          num_samples[s])]),
      Len(batch_triples))

\* C15: for a fixed batch, fixed negatives and a fixed scoring function, the
\* batch loss returned by _process_batch is the same for every chunk size: it
\* equals the loss of the whole batch taken as one chunk (0.0 for a batch
\* without rows).
C15_ChunkingInvariance ==
  pc = "done" =>
    IF Len(batch_triples) = 0
    THEN loss_value = Rat(0, 1)
    ELSE RatEq(loss_value, OneChunkLoss)

\* a batch of three rows was processed in chunks of two rows and one row, two
\* slots having negatives, and its loss is not zero
C15_Witness ==
  /\ pc = "done"
  /\ Len(batch_triples) = 3
  /\ chunks = << <<0, 2>>, <<2, 3>> >>
  /\ Cardinality(ActiveSlots) >= 2
  /\ loss_value.num # 0

\* C13: after construction the implementation is one of triple, all, batch; a
\* configured triple, all or batch is kept; "auto" resolves to batch when the
\* sampler is shared, otherwise to triple when no slot has more than 30
\* negatives and to batch when some slot has 31 or more.
C13_AutoResolution ==
  pc = "constructed" =>
    /\ implementation \in {"triple", "all", "batch"}
    /\ cfg_implementation # "auto" => implementation = cfg_implementation
    /\ (cfg_implementation = "auto" /\ sampler_shared) => implementation = "batch"
    /\ (cfg_implementation = "auto" /\ ~sampler_shared
          /\ \A s \in 1..3 : num_samples[s] <= 30) => implementation = "triple"
    /\ (cfg_implementation = "auto" /\ ~sampler_shared
          /\ \E s \in 1..3 : num_samples[s] >= 31) => implementation = "batch"

\* "auto" was resolved for a sampler that is not shared and whose largest
\* number of negatives is exactly 30
C13_Witness ==
  /\ pc = "constructed"
  /\ cfg_implementation = "auto"
  /\ ~sampler_shared
  /\ \E s \in 1..3 : num_samples[s] = 30
  /\ \A s \in 1..3 : num_samples[s] <= 30
  /\ implementation = "triple"

\* positions of the calls op_ made for batch b
CallsOf(op_, b) ==
  {x \in 1..Len(epoch_calls) : epoch_calls[x].op = op_ /\ epoch_calls[x].batch = b}

\* positions of the optimizer calls
OptimizerCalls == {x \in 1..Len(epoch_calls) : epoch_calls[x].op \in {"zero_grad", "step"}}

\* the optimizer call before position x, 0 if there is none
PrevOptimizerCall(x) ==
  IF \E y \in OptimizerCalls : y < x
  THEN CHOOSE y \in OptimizerCalls : y < x /\ \A z \in OptimizerCalls : z < x => z <= y
  ELSE 0

\* C11: with update_freq = u >= 1, zero_grad is called for a batch exactly when
\* batch_index % u = 0 (before its _process_batch) and step exactly when
\* batch_index % u = u - 1, batch_index counted from 0; zero_grad and step
\* alternate, starting with zero_grad, and a step closes the group of exactly u
\* batches that its zero_grad opened.
C11_UpdateFreq ==
  /\ \A b \in 0..(num_batches - 1) :
       /\ CallsOf("process_batch", b) # {} =>
            /\ Cardinality(CallsOf("zero_grad", b)) = (IF b % update_freq = 0 THEN 1 ELSE 0)
            /\ \A x \in CallsOf("zero_grad", b) : \A y \in CallsOf("process_batch", b) : x < y
       /\ b < epoch_batch_index =>
            /\ Cardinality(CallsOf("step", b)) =
                 (IF b % update_freq = update_freq - 1 THEN 1 ELSE 0)
            /\ \A x \in CallsOf("step", b) : \A y \in CallsOf("process_batch", b) : y < x
       /\ b >= epoch_batch_index => CallsOf("step", b) = {}
       /\ b > epoch_batch_index => CallsOf("zero_grad", b) = {}
  /\ \A x \in OptimizerCalls :
       IF epoch_calls[x].op = "zero_grad"
       THEN PrevOptimizerCall(x) = 0 \/ epoch_calls[PrevOptimizerCall(x)].op = "step"
       ELSE /\ PrevOptimizerCall(x) # 0
            /\ epoch_calls[PrevOptimizerCall(x)].op = "zero_grad"
            /\ epoch_calls[PrevOptimizerCall(x)].batch =
                 epoch_calls[x].batch - update_freq + 1
            /\ Cardinality({y \in PrevOptimizerCall(x)..x :
                             epoch_calls[y].op = "process_batch"}) = update_freq

\* an epoch whose batches are grouped by two: the group of batches 0 and 1 was
\* stepped and batch 2 opened the next group
C11_Witness ==
  /\ pc = "epoch_done"
  /\ update_freq = 2
  /\ num_batches = 3
  /\ CallsOf("zero_grad", 0) # {}
  /\ CallsOf("step", 1) # {}
  /\ CallsOf("zero_grad", 2) # {}

\* the cost is inf or -inf
IsInf(x) == x.kind = "inf"

\* no optimizer step was made for the running batch and no later batch was
\* touched
BatchStopped ==
  /\ CallsOf("step", epoch_batch_index) = {}
  /\ \A x \in 1..Len(epoch_calls) : epoch_calls[x].batch <= epoch_batch_index

\* C12 as stated: with abort-on-nan enabled a cost that is NaN or +/-Inf raises
\* a fatal error for that batch before its optimizer step and before any later
\* batch; with abort-on-nan disabled no error is raised and the batch proceeds.
C12_Original ==
  /\ pc = "error" => (abort_on_nan /\ BatchStopped)
  /\ pc = "epoch_step" => ~(abort_on_nan /\ (IsNan(cost_value) \/ IsInf(cost_value)))

\* C12 (amended): with abort-on-nan enabled a cost that is NaN raises a fatal
\* error for that batch before its optimizer step and before any later batch
\* is processed; a cost of +Inf or -Inf raises nothing and the batch proceeds
\* to its optimizer step like any other; with abort-on-nan disabled no error
\* is raised.
C12_AbortOnNanOnly ==
  /\ pc = "error" => (abort_on_nan /\ IsNan(cost_value) /\ BatchStopped)
  /\ pc = "epoch_step" => ~(abort_on_nan /\ IsNan(cost_value))
  /\ ~abort_on_nan => pc # "error"

\* the second batch aborted the epoch: its loss is inf, its only penalty term
\* -inf, so its cost is nan
C12_Witness ==
  /\ pc = "error"
  /\ epoch_batch_index = 1
  /\ avg_loss = PosInf
  /\ penalties_torch = <<NegInf>>
  /\ num_batches > 2

RECURSIVE FSum(_)
FSum(xs) == IF xs = <<>> THEN Fin(0) ELSE FAdd(Head(xs), FSum(Tail(xs)))

\* the loop over the penalty terms of batch b has ended
PenaltiesDone(b) ==
  \/ b < epoch_batch_index
  \/ (b = epoch_batch_index /\ pc \in {"epoch_step", "error"})

\* C20: the penalty hook is called once per processed batch, after the batch's
\* _process_batch; every term it returned is backpropagated exactly once,
\* before the batch's optimizer step; the cost of the batch is avg_loss plus
\* the sum of all returned terms.
C20_PenaltyOncePerBatch ==
  /\ \A b \in 0..(num_batches - 1) :
       /\ Cardinality(CallsOf("penalty", b)) <= 1
       /\ Cardinality(CallsOf("process_batch", b)) <= 1
       /\ \A x \in CallsOf("penalty", b) :
            /\ \E y \in CallsOf("process_batch", b) : y < x
            /\ \A y \in CallsOf("penalty_backward", b) :
                 x < y /\ epoch_calls[y].arg < epoch_calls[x].arg
            /\ PenaltiesDone(b) =>
                 \A i \in 0..(epoch_calls[x].arg - 1) :
                   Cardinality({y \in CallsOf("penalty_backward", b) :
                                  epoch_calls[y].arg = i}) = 1
       /\ CallsOf("penalty", b) = {} => CallsOf("penalty_backward", b) = {}
       /\ PenaltiesDone(b) => Cardinality(CallsOf("penalty", b)) = 1
       /\ \A x \in CallsOf("step", b) : \A y \in CallsOf("penalty_backward", b) : y < x
  /\ pc \in {"epoch_step", "error"} =>
       cost_value = FAdd(avg_loss, FSum(penalties_torch))

\* the second batch returned two finite penalty terms, both backpropagated,
\* and is about to take its optimizer step
C20_Witness ==
  /\ pc = "epoch_step"
  /\ epoch_batch_index = 1
  /\ update_freq = 2
  /\ penalties_torch = <<Fin(1), Fin(1)>>
  /\ cost_value = Fin(4)
  /\ Cardinality(CallsOf("penalty_backward", 1)) = 2

\* y of entry (b, c) of the batch: 1 when label_coords holds (b, c), else 0
DenseLabel(b, c) ==
  IF \E x \in 1..Len(label_coords_batch) : label_coords_batch[x] = <<b, c>>
  THEN 1 ELSE 0

\* the label matrix of the t-th query type is eps_ * (its dense 0/1 labels) +
\* add_, entry by entry, one row per example of the type in batch order
LabelsAre(t, scale_, add_) ==
  LET ex == {b \in 0..(Len(batch) - 1) : query_type_indexes_batch[b + 1] = t - 1}
      m == labels_for_query_type[t]
  IN  /\ Len(m) = Cardinality(ex)
      /\ Len(examples_for_query_type[t]) = Cardinality(ex)
      /\ \A r \in 1..Len(m) :
           /\ examples_for_query_type[t][r] \in ex
           /\ r > 1 => examples_for_query_type[t][r - 1] < examples_for_query_type[t][r]
           /\ Len(m[r]) = LabelCols(query_types[t])
           /\ \A c \in 1..Len(m[r]) :
                RatEq(m[r][c],
                      RatAdd(RatMul(scale_,
                                    Rat(DenseLabel(examples_for_query_type[t][r], c - 1), 1)),
                             add_))

\* C16 as stated: with label smoothing eps > 0 the labels of sp_ and _po are
\* (1 - eps) * y + eps / num_targets, num_targets the number of columns of y,
\* and the labels of s_o are y.
C16_Original ==
  (pc = "forward" /\ RatLess(Rat(0, 1), label_smoothing)) =>
    \A t \in 1..Len(query_types) :
      IF query_types[t] = "s_o"
      THEN LabelsAre(t, Rat(1, 1), Rat(0, 1))
      ELSE LabelsAre(t, RatSub(Rat(1, 1), label_smoothing),
                     RatMul(label_smoothing, Rat(1, LabelCols(query_types[t]))))

\* C16 (amended): with label smoothing eps > 0 the labels of sp_ and _po are
\* (1 - eps) * y + 1 / num_targets, num_targets the number of columns of y (the
\* added term is not scaled by eps), and the labels of s_o are y.
C16_SmoothingAddsOneOverTargets ==
  (pc = "forward" /\ RatLess(Rat(0, 1), label_smoothing)) =>
    \A t \in 1..Len(query_types) :
      IF query_types[t] = "s_o"
      THEN LabelsAre(t, Rat(1, 1), Rat(0, 1))
      ELSE LabelsAre(t, RatSub(Rat(1, 1), label_smoothing),
                     Rat(1, LabelCols(query_types[t])))

\* a batch with an sp_ example of two labels and an s_o example was prepared
\* with label smoothing 1/2
C16_Witness ==
  /\ pc = "forward"
  /\ label_smoothing = Rat(1, 2)
  /\ \E t \in 1..Len(query_types) :
       /\ query_types[t] = "sp_"
       /\ Len(labels_for_query_type[t]) >= 1
       /\ \E r \in 1..Len(labels_for_query_type[t]) :
            Cardinality({c \in 1..num_entities :
                           RatEq(labels_for_query_type[t][r][c], Rat(5, 6))}) = 2
  /\ \E t \in 1..Len(query_types) :
       query_types[t] = "s_o" /\ Len(labels_for_query_type[t]) >= 1

\* C19: with label smoothing 0 the label matrix of every query type is exactly
\* the dense 0/1 matrix given by label_coords.
C19_NoSmoothingKeepsLabels ==
  (pc = "forward" /\ RatEq(label_smoothing, Rat(0, 1))) =>
    \A t \in 1..Len(query_types) :
      /\ LabelsAre(t, Rat(1, 1), Rat(0, 1))
      /\ \A r \in 1..Len(labels_for_query_type[t]) :
           \A c \in 1..Len(labels_for_query_type[t][r]) :
             labels_for_query_type[t][r][c] \in {Rat(0, 1), Rat(1, 1)}

\* a batch of an sp_ and a _po example, with labels, was prepared without
\* label smoothing
C19_Witness ==
  /\ pc = "forward"
  /\ label_smoothing = Rat(0, 1)
  /\ Len(label_coords_batch) >= 2
  /\ \E t1, t2 \in 1..Len(query_types) :
       /\ query_types[t1] = "sp_"
       /\ query_types[t2] = "_po"
       /\ Len(labels_for_query_type[t1]) >= 1
       /\ Len(labels_for_query_type[t2]) >= 1
       /\ \E c \in 1..num_entities : labels_for_query_type[t1][1][c] = Rat(1, 1)

\* the constructor has returned or raised
Constructed == pc # "construct"

\* C17 as stated: with auto-correction disabled the construction fails exactly
\* when eps is negative or at or above 1/num_targets; every eps with
\* 0 <= eps < 1/num_targets is accepted and stored unchanged.
C17_Original ==
  (Constructed /\ ~auto_correct) =>
    /\ pc = "error" <=>
         (\/ RatLess(cfg_label_smoothing, Rat(0, 1))
          \/ RatLeq(Rat(1, num_entities), cfg_label_smoothing))
    /\ pc # "error" => label_smoothing = cfg_label_smoothing

\* C17 (amended): with auto-correction disabled the construction fails exactly
\* when eps is negative or 0 < eps <= 1/num_entities; eps = 0 and every eps
\* with 1/num_entities < eps < 1 are accepted and stored unchanged.
C17_RejectsSmallSmoothing ==
  (Constructed /\ ~auto_correct) =>
    /\ pc = "error" <=>
         (\/ RatLess(cfg_label_smoothing, Rat(0, 1))
          \/ (/\ RatLess(Rat(0, 1), cfg_label_smoothing)
              /\ RatLeq(cfg_label_smoothing, Rat(1, num_entities))))
    /\ pc # "error" =>
         /\ label_smoothing = cfg_label_smoothing
         /\ config_log = <<"initializing">>

\* without auto-correction a label smoothing of exactly 1/num_entities was
\* refused
C17_Witness ==
  /\ pc = "error"
  /\ ~auto_correct
  /\ RatEq(cfg_label_smoothing, Rat(1, num_entities))

\* a correction of the label smoothing was logged
CorrectionLogged ==
  \E x \in 1..Len(config_log) : config_log[x] = "label_smoothing_set"

\* C18 as stated: with auto-correction enabled the construction never fails
\* for the label smoothing; a negative eps becomes 0, an eps at or above
\* 1/num_targets becomes 1/num_targets, an eps in [0, 1/num_targets) is kept,
\* and a log entry is written exactly when the value was changed.
C18_Original ==
  (Constructed /\ auto_correct) =>
    /\ pc # "error"
    /\ RatLess(cfg_label_smoothing, Rat(0, 1)) => RatEq(label_smoothing, Rat(0, 1))
    /\ RatLeq(Rat(1, num_entities), cfg_label_smoothing) =>
         RatEq(label_smoothing, Rat(1, num_entities))
    /\ (RatLeq(Rat(0, 1), cfg_label_smoothing)
          /\ RatLess(cfg_label_smoothing, Rat(1, num_entities))) =>
         RatEq(label_smoothing, cfg_label_smoothing)
    /\ CorrectionLogged <=> ~RatEq(label_smoothing, cfg_label_smoothing)

\* C18 (amended): with auto-correction enabled the construction never fails
\* for a label smoothing below 1; a negative eps becomes 0, an eps with
\* 0 < eps <= 1/num_entities becomes 1/num_entities, eps = 0 and every eps
\* above 1/num_entities are kept, and a log entry is written exactly when eps
\* is negative or 0 < eps <= 1/num_entities (also for eps = 1/num_entities,
\* whose value stays).
C18_AutoCorrectRaisesSmallSmoothing ==
  (Constructed /\ auto_correct) =>
    /\ pc # "error"
    /\ RatLess(cfg_label_smoothing, Rat(0, 1)) => label_smoothing = Rat(0, 1)
    /\ (RatLess(Rat(0, 1), cfg_label_smoothing)
          /\ RatLeq(cfg_label_smoothing, Rat(1, num_entities))) =>
         label_smoothing = Rat(1, num_entities)
    /\ (RatEq(cfg_label_smoothing, Rat(0, 1))
          \/ RatLess(Rat(1, num_entities), cfg_label_smoothing)) =>
         label_smoothing = cfg_label_smoothing
    /\ CorrectionLogged <=>
         (\/ RatLess(cfg_label_smoothing, Rat(0, 1))
          \/ (/\ RatLess(Rat(0, 1), cfg_label_smoothing)
              /\ RatLeq(cfg_label_smoothing, Rat(1, num_entities))))

\* with auto-correction a label smoothing strictly between 0 and
\* 1/num_entities was raised to 1/num_entities and the correction logged
C18_Witness ==
  /\ pc = "prepare"
  /\ auto_correct
  /\ RatLess(Rat(0, 1), cfg_label_smoothing)
  /\ RatLess(cfg_label_smoothing, Rat(1, num_entities))
  /\ label_smoothing = Rat(1, num_entities)
  /\ CorrectionLogged

\* C21: the sampler is called once per slot, in the order S, P, O, on all the
\* triples of the batch, never per chunk; every chunk uses the rows
\* [chunk_start, chunk_end) of the result of each slot: row r of the negatives
\* of a chunk is the row sampled for batch triple chunk_start + r.
C21_SampledOncePerBatch ==
  /\ pc # "collate" =>
       /\ sample_calls = <<S, P, O>>
       /\ \A s \in 1..3 :
            /\ Len(batch_negative_samples[s]) = Len(batch)
            /\ batch_negative_samples[s] =
                 Sample(seed, [i \in 1..Len(batch) |-> TrainSplit[batch[i] + 1]],
                        s - 1, num_samples[s])
  /\ pc \in {"slot", "loss", "backward"} =>
       \A s \in 1..3 :
         /\ Len(negative_samples[s]) = chunks[Len(chunks)][2] - chunks[Len(chunks)][1]
         /\ \A r \in 1..Len(negative_samples[s]) :
              negative_samples[s][r] =
                batch_negative_samples[s][chunks[Len(chunks)][1] + r]

\* the second chunk of a batch is being processed, a slot without negatives
\* was sampled too, and the negatives of the chunk differ from those of the
\* first rows of the batch
C21_Witness ==
  /\ pc = "loss"
  /\ chunk_number = 1
  /\ chunk_start > 0
  /\ \E s \in 1..3 : num_samples[s] = 0
  /\ sample_calls = <<S, P, O>>
  /\ negative_samples[slot + 1][1] # batch_negative_samples[slot + 1][1]

\* the positive and the negatives of the slot, row after row
FlatTargets ==
  ViewFlat(Cat1(ColMatrix(triples, slot), negative_samples[slot + 1]))

\* C23: with implementation "batch" the unique targets of a chunk and slot
\* hold no value twice and are exactly the positive and negative slot values
\* of the chunk, and the inverse index leads every position (i, j) of the
\* [chunk_size, 1 + k] layout back to its own value.
C23_UniqueAndInverse ==
  implementation = "batch" =>
    LET k == num_samples[slot + 1]
        unique_targets == Unique(FlatTargets)
        column_indexes == UniqueInverse(FlatTargets)
    IN  /\ \A x, y \in 1..Len(unique_targets) :
             x # y => unique_targets[x] # unique_targets[y]
        /\ {unique_targets[x] : x \in 1..Len(unique_targets)} =
             {TargetOf(i, j) : i \in 1..Len(triples), j \in 1..(1 + k)}
        /\ Len(column_indexes) = Len(triples) * (1 + k)
        /\ \A i \in 0..(Len(triples) - 1) : \A j \in 0..k :
             /\ column_indexes[i * (1 + k) + j + 1] \in 0..(Len(unique_targets) - 1)
             /\ unique_targets[column_indexes[i * (1 + k) + j + 1] + 1] =
                  TargetOf(i + 1, j + 1)

\* a chunk was scored with "batch" in which one value is the positive of a
\* row, a negative of another row and twice a negative of one row
C23_Witness ==
  /\ pc = "scored"
  /\ implementation = "batch"
  /\ Len(triples) >= 2
  /\ num_samples[slot + 1] >= 2
  /\ negative_samples[slot + 1][1][1] = triples[2][slot + 1]
  /\ negative_samples[slot + 1][1][1] = negative_samples[slot + 1][1][2]
  /\ Len(Unique(FlatTargets)) < Len(FlatTargets) - 2

\* the query types the job supports
SupportedQueryTypes == {"sp_", "s_o", "_po"}

\* C22: an enabled query type other than sp_, s_o, _po is a fatal
\* configuration error: the job gets neither through _prepare with an index
\* for it nor through collate with a slot layout for it.
C22_UnsupportedQueryTypeFatal ==
  (\E t \in 1..Len(query_types) : query_types[t] \notin SupportedQueryTypes) =>
    /\ pc \in {"prepare", "error"}
    /\ \A t \in 1..Len(query_types) :
         query_types[t] \notin SupportedQueryTypes =>
           /\ IndexTypeOf(query_types[t]) \notin {"sp_to_o", "so_to_p", "po_to_s"}
           /\ Layout(query_types[t]) # Layout("_po")

\* the query types with at least one example in the batch
TypesWithExamples ==
  {t \in 1..Len(query_types) : Len(examples_for_query_type[t]) > 0}

RECURSIVE SumOfTypeLosses(_)
SumOfTypeLosses(ts) ==
  IF ts = {} THEN Rat(0, 1)
  ELSE LET t == CHOOSE x \in ts : TRUE
       IN  RatAdd(LossOfType(t), SumOfTypeLosses(ts \ {t}))

\* C24: the avg_loss that KvsAll._process_batch returns is the sum of the
\* losses (each divided by the batch size) of all query types with at least
\* one example in the batch, i.e. of every loss that was backpropagated.
C24_AvgLossIsSumOfLosses ==
  pc = "processed" =>
    /\ Len(backward_calls) = Cardinality(TypesWithExamples)
    /\ RatEq(loss_value_total, SumOfTypeLosses(TypesWithExamples))
    /\ RatEq(loss_value_total, RatSum(backward_calls))

\* C25: no optimizer.zero_grad(), within the epoch or at batch 0 of the next
\* epoch, discards the gradients of a batch that was not followed by an
\* optimizer.step().
C25_NoGradientDiscarded == discarded = <<>>

\* the number of examples in the batches the epoch has processed
ProcessedExamples ==
  SumSeq([i \in 1..epoch_batch_index |-> BatchSizeOf(i - 1)])

\* two quotients of floats are the same number
FQuotEq(x, y) ==
  /\ x.kind = y.kind
  /\ IF x.kind = "fin" THEN RatEq(x.val, y.val) ELSE x.val = y.val

\* C30: the avg_loss of the epoch trace entry is the size-weighted mean of the
\* batch losses over the batches processed in the epoch (the sum of avg_loss *
\* size divided by the number of examples in those batches), and avg_penalty
\* is the penalty sum divided by the number of processed batches.
C30_TraceAveragesOverProcessed ==
  pc = "epoch_done" =>
    /\ FQuotEq(trace_entry.avg_loss, FDiv(sum_loss, ProcessedExamples))
    /\ FQuotEq(trace_entry.avg_penalty, FDiv(sum_penalty, epoch_batch_index))

\* the last entry of the log of run is a stop for lack of improvement
StoppedForPatience ==
  /\ pc = "run_finish"
  /\ run_log[Len(run_log)].ev = "stop_patience"

\* a validation ran in the epoch just finished, more than patience results
\* exist and none of the last patience results is strictly better than the
\* best result before them
NoImprovement ==
  /\ Len(valid_trace) > 0
  /\ valid_trace[Len(valid_trace)].epoch = epoch
  /\ Len(valid_trace) > patience
  /\ \A i \in (Len(valid_trace) - patience + 1)..Len(valid_trace) :
       \E j \in 1..(Len(valid_trace) - patience) :
         valid_trace[j].metric >= valid_trace[i].metric

\* the min-threshold rule applies to the epoch just finished
MinThresholdTriggers ==
  /\ Len(valid_trace) > 0
  /\ valid_trace[Len(valid_trace)].epoch = epoch
  /\ epoch > min_threshold.epochs
  /\ \A j \in 1..Len(valid_trace) : valid_trace[j].metric < min_threshold.metric_value

\* C26: with patience p > 0 and the min-threshold rule not triggering, run
\* stops before starting a new epoch exactly when a validation ran in the epoch
\* just finished, more than p validation results exist and the first greatest
\* metric value lies before the last p results; with patience <= 0 it never
\* stops for lack of improvement. (Below max_epochs, that is the only stop.)
C26_PatienceStop ==
  pc \in {"run_epoch", "run_finish"} =>
    /\ patience > 0 => (StoppedForPatience <=> NoImprovement)
    /\ (patience > 0 /\ ~MinThresholdTriggers /\ epoch < max_epochs) =>
         (pc = "run_finish" <=> NoImprovement)
    /\ patience <= 0 => ~StoppedForPatience

\* patience 2: the third validation only ties with the first, the run stops
C26_Witness ==
  /\ StoppedForPatience
  /\ patience = 2
  /\ Len(valid_trace) = 3
  /\ valid_trace[1].metric = 2
  /\ valid_trace[2].metric = 1
  /\ valid_trace[3].metric = 2
  /\ epoch < max_epochs

\* the numbered checkpoints that are to exist after the checkpoint step of epoch e
CheckpointsKept(e) ==
  {e} \cup
    (IF checkpoint_every > 0
     THEN {m \in 1..(e - 1) :
             /\ m % checkpoint_every = 0
             /\ checkpoint_keep > 0 => m > e - 1 - checkpoint_every * checkpoint_keep}
     ELSE {})

\* C27: after the checkpoint step of every epoch e the numbered checkpoints on
\* disk are the checkpoint of e plus, when checkpoint.every > 0, the earlier
\* epochs that are multiples of checkpoint.every, restricted when
\* checkpoint.keep > 0 to those greater than e - 1 - every * keep; so one
\* checkpoint with every = 0 and at most keep + 1 with every > 0 and keep > 0.
C27_CheckpointsOnDisk ==
  (pc \in {"run_check", "run_finish", "run_completed", "error"} /\ epoch >= 1) =>
    /\ checkpoints = CheckpointsKept(epoch)
    /\ checkpoint_every = 0 => Cardinality(checkpoints) = 1
    /\ (checkpoint_every > 0 /\ checkpoint_keep > 0) =>
         Cardinality(checkpoints) <= checkpoint_keep + 1

\* every = 1, keep = 2: after epoch 4 the checkpoint of epoch 1 is gone
C27_Witness ==
  /\ pc = "run_check"
  /\ epoch = 4
  /\ checkpoint_every = 1
  /\ checkpoint_keep = 2
  /\ checkpoints = {2, 3, 4}

\* the epochs run_epoch was called for, in order
RunEpochCalls == SelectSeq(run_log, LAMBDA e : e.ev = "run_epoch")

\* C28: run terminates: from epoch e0 <= max_epochs it raises self.epoch by
\* one per run_epoch call, never above train.max_epochs, runs at most
\* max_epochs - e0 epochs, and after the loop, however it was left, emits the
\* train_completed trace exactly once.
C28_RunCompletes ==
  /\ epoch <= max_epochs
  /\ epoch = start_epoch + Len(RunEpochCalls)
  /\ \A k \in 1..Len(RunEpochCalls) : RunEpochCalls[k].epoch = start_epoch + k
  /\ Len(RunEpochCalls) <= max_epochs - start_epoch
  /\ pc # "error"
  /\ Len(SelectSeq(run_log, LAMBDA e : e.ev = "train_completed")) =
       (IF pc = "run_completed" THEN 1 ELSE 0)

\* the positions of the backward calls whose loss includes the loss of batch b
BackwardsOf(b) ==
  {x \in 1..Len(evokg_calls) :
     /\ evokg_calls[x].op = "backward"
     /\ \E i \in 1..Len(evokg_calls[x].arg) : evokg_calls[x].arg[i] = b}

\* C29: in the evokg loop the loss of every batch is included in exactly one
\* backward call, every backward call is followed by the step and zero_grad
\* of the enabled optimizers before the next loss is computed, and when the
\* loop ends no accumulated loss is left that was never backpropagated.
C29_EveryLossBackpropagated ==
  /\ \A b \in 0..(num_train_batches - 1) : Cardinality(BackwardsOf(b)) <= 1
  /\ \A x \in 1..Len(evokg_calls) :
       evokg_calls[x].op = "backward" =>
         /\ x + Len(OptimizerSteps(evokg_calls[x].batch)) <= Len(evokg_calls)
         /\ \A i \in 1..Len(OptimizerSteps(evokg_calls[x].batch)) :
              evokg_calls[x + i] = OptimizerSteps(evokg_calls[x].batch)[i]
  /\ pc = "evokg_done" =>
       /\ batch_train_loss = <<>>
       /\ \A b \in 0..(num_train_batches - 1) : Cardinality(BackwardsOf(b)) = 1

====
